---- MODULE Spec2Model ----
(***************************************************************************)
(* Model of the docschema DocumentRegister (versioned register with        *)
(* effective-dated entries, audit log and indexes).                        *)
(*                                                                         *)
(* Timestamps are points on one integer time line (an ISO-8601 string and  *)
(* the Date parsed from it denote the same point); 0 stands for an absent  *)
(* (null / undefined / falsy) date.  JavaScript null and undefined that    *)
(* end up in metadata are the strings "null" and "undefined".              *)
(* Entries stored in the default Map storage are objects shared by         *)
(* reference: every entry carries the identity (oid) of the object that    *)
(* holds it, and an in-place mutation of an object is seen by every call   *)
(* that holds a reference to it.                                           *)
(***************************************************************************)
EXTENDS Integers, Sequences, FiniteSets, TLC

(* ---------------------------- bounds ----------------------------------- *)
MaxTime == 2        \* the clock runs from 1 to MaxTime
MaxVersion == 3     \* an entry is updated up to this version
MaxAudit == 3       \* mutations made in one run (the audit log's length)

(* ---------------------------- values ----------------------------------- *)
Ids == {"a", "b"}
Callers == {"c1", "c2"}
Null == "null"
Undefined == "undefined"
NoDate == 0
NoVersion == -1
Times == 1..MaxTime

MetaKeys == {"schemaId", "schemaVersion", "extractionId", "confidence",
             "source", "tags", "category", "approvedBy"}

\* a document handed to add/update: the extracted data plus the fields the
\* register copies into metadata (absent ones are undefined)
BareDocument(d) ==
    [data |-> d, schemaId |-> Undefined, schemaVersion |-> Undefined,
     extractionId |-> Undefined, confidence |-> Undefined]
ExtractedDocument(d) ==
    [data |-> d, schemaId |-> "schema1", schemaVersion |-> "1.0",
     extractionId |-> "ext1", confidence |-> "0.9"]

\* options.metadata: a mapping that supplies some metadata keys
NoMeta == [k \in {} |-> Undefined]
ReviewMeta == [k \in {"category", "approvedBy"} |-> "m_" \o k]

\* the options of add: effectiveFrom, effectiveTo, status, source, tags,
\* category, metadata (options.id is the id argument of the Add action)
DefaultAdd ==
    [effectiveFrom |-> NoDate, effectiveTo |-> NoDate, status |-> Undefined,
     source |-> Undefined, tags |-> {}, category |-> Undefined,
     metadata |-> NoMeta]
TaggedAdd ==
    [DefaultAdd EXCEPT !.source = "deed.pdf", !.tags = {"t1"},
                       !.category = "benefits"]
DatedAdd(from, to) ==
    [DefaultAdd EXCEPT !.effectiveFrom = from, !.effectiveTo = to]

\* the options of update: effectiveFrom, effectiveTo, metadata
DefaultUpdate ==
    [effectiveFrom |-> NoDate, effectiveTo |-> NoDate, metadata |-> NoMeta]
ReviewedUpdate == [DefaultUpdate EXCEPT !.metadata = ReviewMeta]
DatedUpdate(from, to) ==
    [DefaultUpdate EXCEPT !.effectiveFrom = from, !.effectiveTo = to]

(* ---------------------------- state ------------------------------------ *)
VARIABLES
    storage,    \* this.storage: the Map id -> entry (its domain is the stored ids)
    auditLog,   \* this.auditLog
    indexes,    \* this.indexes: category and tags maps of id sets
    now,        \* the clock read by new Date()
    nextOid,    \* identity given to the next entry object created
    calls,      \* the calls in progress, suspended at their await
    result,     \* what the last completed call returned or threw
    fresh,      \* a second register, built by new DocumentRegister() to import into
    pendingApprovals,   \* ExtractionPipeline: the run ids that wait for approval
    runs,               \* ExtractionPipeline: the results object of every run
    processingHistory,  \* ExtractionPipeline: the runs recorded, in order
    batch               \* extractBatch / processBatch: the batch call in progress

vars == <<storage, auditLog, indexes, now, nextOid, calls, result, fresh,
          pendingApprovals, runs, processingHistory, batch>>

\* the state of the pipeline, and what the calls on this register leave alone
pipeline == <<pendingApprovals, runs, processingHistory>>
outside == <<fresh, pipeline, batch>>

(* ---------------------------- constructor ------------------------------ *)
\* options.enableVersioning ?? true, options.enableAuditLog ?? true,
\* options.schemaId || null
enableVersioning == TRUE
enableAuditLog == TRUE
thisSchemaId == Null

(* ---------------------------- helpers ---------------------------------- *)
\* a || b on metadata values and on dates; options.version && ...
Falsy(v) == v \in {Null, Undefined}
OrElse(a, b) == IF Falsy(a) THEN b ELSE a
DateOrElse(d, e) == IF d = NoDate THEN e ELSE d
Truthy(version) == version \notin {NoVersion, 0}

\* { ...base, ...over }
Spread(base, over) ==
    [k \in MetaKeys |-> IF k \in DOMAIN over THEN over[k] ELSE base[k]]

RECURSIVE Reverse(_)
Reverse(s) == IF s = <<>> THEN <<>> ELSE Append(Reverse(Tail(s)), Head(s))

IsPrefix(s, t) == Len(s) <= Len(t) /\ \A i \in 1..Len(s) : s[i] = t[i]

\* Contains with the end of the interval included
ContainsClosed(from, to, t) == from <= t /\ (to = NoDate \/ to >= t)

\* [effectiveFrom, effectiveTo) contains t, as tested in get and list:
\* from <= t && (!to || to > t)
Contains(from, to, t) == from <= t /\ (to = NoDate \/ to > t)

\* no object: what a lookup of an id that is not stored gives
NoObject == [oid |-> 0]
Lookup(id) == IF id \in DOMAIN storage THEN storage[id] ELSE NoObject
Stored(id) == id \in DOMAIN storage

(* ---------------------------- add -------------------------------------- *)
\* the entry object built by add
NewEntry(id, oid, document, options, t) ==
    [id |-> id,
     oid |-> oid,
     version |-> 1,
     createdAt |-> t,
     updatedAt |-> t,
     effectiveFrom |-> DateOrElse(options.effectiveFrom, t),
     effectiveTo |-> options.effectiveTo,
     status |-> OrElse(options.status, "active"),
     data |-> document.data,
     metadata |-> Spread(
        [schemaId |-> OrElse(document.schemaId, thisSchemaId),
         schemaVersion |-> document.schemaVersion,
         extractionId |-> document.extractionId,
         confidence |-> document.confidence,
         source |-> OrElse(options.source, Null),
         tags |-> options.tags,
         category |-> OrElse(options.category, Null),
         approvedBy |-> Undefined],
        options.metadata),
     history |-> <<>>,
     archivedAt |-> NoDate]

(* ---------------------------- update ----------------------------------- *)
\* HistoryEntry that keeps the effectiveTo of the head instead of closing it
HistoryEntryNotClosed(existing, t) ==
    [version |-> existing.version,
     data |-> existing.data,
     metadata |-> existing.metadata,
     effectiveFrom |-> existing.effectiveFrom,
     effectiveTo |-> existing.effectiveTo,
     archivedAt |-> t]

\* the history record update builds from the head it read
HistoryEntry(existing, t) ==
    [version |-> existing.version,
     data |-> existing.data,
     metadata |-> existing.metadata,
     effectiveFrom |-> existing.effectiveFrom,
     effectiveTo |-> t,
     archivedAt |-> t]

\* the metadata of the new head
UpdatedMetadata(existing, document, options) ==
    Spread(
        [existing.metadata EXCEPT
            !.schemaId = OrElse(document.schemaId, existing.metadata.schemaId),
            !.schemaVersion = OrElse(document.schemaVersion,
                                     existing.metadata.schemaVersion),
            !.extractionId = document.extractionId,
            !.confidence = document.confidence],
        options.metadata)

\* the history of the new head
UpdatedHistory(existing, t) ==
    IF enableVersioning
    THEN Append(existing.history, HistoryEntry(existing, t))
    ELSE <<>>

\* UpdatedEntry with the version left as it was read
UpdatedEntryNoIncrement(existing, oid, document, options, t) ==
    [existing EXCEPT
        !.oid = oid,
        !.updatedAt = t,
        !.effectiveFrom = DateOrElse(options.effectiveFrom, t),
        !.effectiveTo = options.effectiveTo,
        !.data = document.data,
        !.metadata = UpdatedMetadata(existing, document, options),
        !.history = UpdatedHistory(existing, t)]

\* the entry object update stores
UpdatedEntry(existing, oid, document, options, t) ==
    [existing EXCEPT
        !.oid = oid,
        !.version = existing.version + 1,
        !.updatedAt = t,
        !.effectiveFrom = DateOrElse(options.effectiveFrom, t),
        !.effectiveTo = options.effectiveTo,
        !.data = document.data,
        !.metadata = UpdatedMetadata(existing, document, options),
        !.history = UpdatedHistory(existing, t)]

(* ---------------------------- indexes ---------------------------------- *)
\* map.get(key).add(id), creating the set when the key is new
AddToIndex(map, key, id) ==
    IF key \in DOMAIN map
    THEN [map EXCEPT ![key] = @ \cup {id}]
    ELSE map @@ (key :> {id})

RECURSIVE AddAllToIndex(_, _, _)
AddAllToIndex(map, keys, id) ==
    IF keys = {} THEN map
    ELSE LET k == CHOOSE x \in keys : TRUE
         IN AddAllToIndex(AddToIndex(map, k, id), keys \ {k}, id)

UpdateIndexes(idx, entry) ==
    [category |-> IF ~Falsy(entry.metadata.category)
                  THEN AddToIndex(idx.category, entry.metadata.category, entry.id)
                  ELSE idx.category,
     tags |-> AddAllToIndex(idx.tags, entry.metadata.tags, entry.id)]

(* ---------------------------- audit log -------------------------------- *)
\* LogAudit that puts the new entry first
LogAuditFirst(log, action, documentId, details, t) ==
    <<[timestamp |-> t, action |-> action, documentId |-> documentId,
       details |-> details]>> \o log

\* _logAudit: push one entry at the end of the log

LogAudit(log, action, documentId, details, t) ==
    Append(log, [timestamp |-> t, action |-> action, documentId |-> documentId,
                 details |-> details])

(* ---------------------------- get -------------------------------------- *)
\* the shape get gives a history record
HistoricView(entry, h) ==
    [id |-> entry.id, version |-> h.version, data |-> h.data,
     metadata |-> h.metadata, effectiveFrom |-> h.effectiveFrom,
     effectiveTo |-> h.effectiveTo, isHistoric |-> TRUE]

\* history.find(h => h.version === version): index of the first match, 0 if none
FindVersion(history, version) ==
    IF \E i \in 1..Len(history) : history[i].version = version
    THEN CHOOSE i \in 1..Len(history) :
            /\ history[i].version = version
            /\ \A j \in 1..(i - 1) : history[j].version # version
    ELSE 0

\* the first record, in the order of the sequence, whose interval contains
\* asOf: its index, 0 if none
FindEffective(history, asOf) ==
    IF \E i \in 1..Len(history) :
            Contains(history[i].effectiveFrom, history[i].effectiveTo, asOf)
    THEN CHOOSE i \in 1..Len(history) :
            /\ Contains(history[i].effectiveFrom, history[i].effectiveTo, asOf)
            /\ \A j \in 1..(i - 1) :
                 ~Contains(history[j].effectiveFrom, history[j].effectiveTo, asOf)
    ELSE 0

Returned(value) == [outcome |-> "ok", error |-> "", value |-> value]
ReturnedNull == [outcome |-> "null", error |-> "", value |-> NoObject]
Thrown(message) == [outcome |-> "error", error |-> message, value |-> NoObject]

\* the branch of get taken when options.version is given and is not the head's
GetVersion(entry, version) ==
    LET i == FindVersion(entry.history, version)
    IN IF i # 0
       THEN Returned(HistoricView(entry, entry.history[i]))
       ELSE Thrown("Version not found")

\* the search of the history in the asOf branch, over history.reverse()
GetAsOfHistoric(entry, asOf) ==
    LET reversed == Reverse(entry.history)
        i == FindEffective(reversed, asOf)
    IN IF i # 0
       THEN Returned(HistoricView(entry, reversed[i]))
       ELSE ReturnedNull

\* get reaches entry.history.reverse(), which reverses the array in place
GetReverses(entry, version, asOf) ==
    /\ entry.oid # 0
    /\ ~(Truthy(version) /\ version # entry.version)
    /\ asOf # NoDate
    /\ ~Contains(entry.effectiveFrom, entry.effectiveTo, asOf)

\* GetOutcome that throws for an id that is not stored
GetOutcomeThrowing(entry, version, asOf) ==
    IF entry.oid = 0 THEN Thrown("Document not found")
    ELSE IF Truthy(version) /\ version # entry.version
         THEN GetVersion(entry, version)
    ELSE IF asOf # NoDate
         THEN IF Contains(entry.effectiveFrom, entry.effectiveTo, asOf)
              THEN Returned(entry)
              ELSE GetAsOfHistoric(entry, asOf)
    ELSE Returned(entry)

\* what get(id, {version, asOf}) returns or throws for the object it looked up
GetOutcome(entry, version, asOf) ==
    IF entry.oid = 0 THEN ReturnedNull
    ELSE IF Truthy(version) /\ version # entry.version
         THEN GetVersion(entry, version)
    ELSE IF asOf # NoDate
         THEN IF Contains(entry.effectiveFrom, entry.effectiveTo, asOf)
              THEN Returned(entry)
              ELSE GetAsOfHistoric(entry, asOf)
    ELSE Returned(entry)

\* the entry object after the side effects of get on it
AfterGet(entry, version, asOf) ==
    IF GetReverses(entry, version, asOf)
    THEN [entry EXCEPT !.history = Reverse(@)]
    ELSE entry

(* ---------------------------- getHistory ------------------------------- *)
RECURSIVE MapHistory(_)
MapHistory(history) ==
    IF history = <<>> THEN <<>>
    ELSE <<[version |-> Head(history).version,
            effectiveFrom |-> Head(history).effectiveFrom,
            effectiveTo |-> Head(history).effectiveTo,
            archivedAt |-> Head(history).archivedAt,
            isCurrent |-> FALSE]>> \o MapHistory(Tail(history))

GetHistoryOutcome(entry) ==
    IF entry.oid = 0 THEN Thrown("Document not found")
    ELSE Returned(
        [id |-> entry.id,
         currentVersion |-> entry.version,
         versions |-> <<[version |-> entry.version,
                         effectiveFrom |-> entry.effectiveFrom,
                         effectiveTo |-> entry.effectiveTo,
                         updatedAt |-> entry.updatedAt,
                         isCurrent |-> TRUE]>>
                      \o Reverse(MapHistory(entry.history))])

(* ---------------------------- archive ---------------------------------- *)
\* ArchivedEntry that also ends the validity of the entry
ArchivedEntryClosing(entry, t) ==
    [entry EXCEPT !.status = "archived", !.archivedAt = t, !.effectiveTo = t]

\* the entry object after archive has set its fields
ArchivedEntry(entry, t) ==
    [entry EXCEPT !.status = "archived", !.archivedAt = t]

(* ---------------------------- calls ------------------------------------ *)
Idle == [pc |-> "idle", existing |-> NoObject]
NoArgs == <<>>
NoResult == [op |-> "none", id |-> "", version |-> NoVersion, asOf |-> NoDate,
             args |-> NoArgs, read |-> 0, outcome |-> "none", error |-> "",
             value |-> NoObject]

\* what caller c gets back from a call, with the arguments of the call and
\* the identity of the entry object the call looked up (0 if none)
Completed(c, op, id, version, asOf, args, read, r) ==
    [result EXCEPT ![c] = [op |-> op, id |-> id, version |-> version,
                           asOf |-> asOf, args |-> args, read |-> read,
                           outcome |-> r.outcome, error |-> r.error,
                           value |-> r.value]]

\* the Map after storage.set(id, entry)
StorageSet(map, id, entry) ==
    [i \in DOMAIN map \cup {id} |-> IF i = id THEN entry ELSE map[i]]

\* an in-place change of the object oid, as seen through the Map
StorageWith(oid, changed) ==
    [i \in DOMAIN storage |-> IF storage[i].oid = oid THEN changed ELSE storage[i]]

\* ... and as seen by the calls suspended with a reference to it
CallsWith(oid, changed) ==
    [c \in Callers |-> IF calls[c].pc # "idle" /\ calls[c].existing.oid = oid
                       THEN [calls[c] EXCEPT !.existing = changed]
                       ELSE calls[c]]

Pending == Cardinality({c \in Callers : calls[c].pc # "idle"})

(* ---------------------------- actions ---------------------------------- *)
(* ---------------------------- list ------------------------------------- *)
\* the options of list: the filters, the page and includeData (the sort is
\* the default one, by updatedAt, descending)
DefaultLimit == 100
Infinity == 1000000
ListAll ==
    [status |-> Undefined, category |-> Undefined, tags |-> {},
     effectiveAt |-> NoDate, schemaId |-> Undefined,
     offset |-> 0, limit |-> 0, includeData |-> FALSE]

\* the filters of list, each applied only when its option is truthy
ListFilter(e, o) ==
    /\ Falsy(o.status) \/ e.status = o.status
    /\ Falsy(o.category) \/ e.metadata.category = o.category
    /\ o.tags = {} \/ o.tags \cap e.metadata.tags # {}
    /\ o.effectiveAt = NoDate \/ Contains(e.effectiveFrom, e.effectiveTo, o.effectiveAt)
    /\ Falsy(o.schemaId) \/ e.metadata.schemaId = o.schemaId

\* the orders entries.sort can leave the filtered entries in: the comparator
\* (aVal < bVal ? 1 : -1) puts a later updatedAt first and never answers 0,
\* so the order of entries with equal updatedAt is the sort algorithm's
ListOrders(store, o) ==
    LET ids == {id \in DOMAIN store : ListFilter(store[id], o)}
    IN {s \in [1..Cardinality(ids) -> ids] :
           /\ \A i, j \in DOMAIN s : i # j => s[i] # s[j]
           /\ \A i, j \in DOMAIN s :
                 i < j => store[s[i]].updatedAt >= store[s[j]].updatedAt}

\* what list hands out for an entry when includeData is not set
ListedEntry(e) ==
    [id |-> e.id, version |-> e.version, status |-> e.status,
     createdAt |-> e.createdAt, updatedAt |-> e.updatedAt,
     effectiveFrom |-> e.effectiveFrom, effectiveTo |-> e.effectiveTo,
     metadata |-> e.metadata]

\* entries.slice(offset, offset + limit)
Slice(s, offset, limit) ==
    LET end == IF offset + limit < Len(s) THEN offset + limit ELSE Len(s)
    IN IF offset >= Len(s) THEN <<>> ELSE SubSeq(s, offset + 1, end)

\* the answer of list for one of the orders of its sort
ListResult(store, o, order) ==
    LET limit == IF o.limit = 0 THEN DefaultLimit ELSE o.limit
        page == Slice(order, o.offset, limit)
    IN [entries |-> [i \in DOMAIN page |->
                        IF o.includeData THEN store[page[i]]
                        ELSE ListedEntry(store[page[i]])],
        total |-> Len(order),
        offset |-> o.offset,
        limit |-> limit,
        hasMore |-> o.offset + limit < Len(order)]

(* ---------------------------- export ----------------------------------- *)
\* export(): list({includeData: true, limit: Infinity}) wrapped in a payload
ExportPayload(store, order, t) ==
    LET list == ListResult(store, [ListAll EXCEPT !.includeData = TRUE,
                                                  !.limit = Infinity], order)
    IN [registerName |-> "default", schemaId |-> thisSchemaId, exportedAt |-> t,
        totalEntries |-> list.total, entries |-> list.entries]

(* ---------------------------- import ----------------------------------- *)
\* a register as a value: what new DocumentRegister() holds, and what add
\* makes of it
EmptyRegister ==
    [storage |-> [i \in {} |-> NoObject],
     indexes |-> [category |-> [k \in {} |-> {}], tags |-> [k \in {} |-> {}]],
     auditLog |-> <<>>]

ThisRegister == [storage |-> storage, indexes |-> indexes, auditLog |-> auditLog]

AddTo(reg, id, oid, document, options, t) ==
    LET entry == NewEntry(id, oid, document, options, t)
    IN [storage |-> StorageSet(reg.storage, id, entry),
        indexes |-> UpdateIndexes(reg.indexes, entry),
        auditLog |-> IF enableAuditLog
                     THEN LogAudit(reg.auditLog, "ADD", id,
                                   [version |-> 1,
                                    effectiveFrom |-> entry.effectiveFrom], t)
                     ELSE reg.auditLog]

\* the data objects: 100 and 150 are field maps with no field named "data",
\* NestedData is a field map with a field named "data" whose value is the
\* field map 100.  InnerData(d) is d.data || d.
NestedData == 200
InnerData(d) == IF d = NestedData THEN 100 ELSE d

\* the document import hands to add is the item's data object (entry.data ||
\* entry): add stores document.data || document and reads the schema fields
\* from properties the data object does not have
ImportedDocument(item) ==
    [data |-> InnerData(item.data), schemaId |-> Undefined,
     schemaVersion |-> Undefined, extractionId |-> Undefined,
     confidence |-> Undefined]

\* the options import hands to add
ImportedOptions(item) ==
    [effectiveFrom |-> item.effectiveFrom, effectiveTo |-> item.effectiveTo,
     status |-> item.status, source |-> "import", tags |-> {},
     category |-> Undefined, metadata |-> item.metadata]

NoImportResults == [imported |-> 0, skipped |-> 0, errors |-> <<>>]

\* the loop of import over the items left, from the register reg and the
\* results counted so far; oid is the identity of the next entry object.
\* With the Map storage neither get nor add throws, so the catch is not taken.
RECURSIVE ImportItems(_, _, _, _, _, _)
ImportItems(reg, items, skipExisting, oid, t, results) ==
    IF items = <<>> THEN [register |-> reg, results |-> results, nextOid |-> oid]
    ELSE LET item == Head(items)
         IN IF skipExisting /\ item.id \in DOMAIN reg.storage
            THEN ImportItems(reg, Tail(items), skipExisting, oid, t,
                             [results EXCEPT !.skipped = @ + 1])
            ELSE ImportItems(AddTo(reg, item.id, oid, ImportedDocument(item),
                                   ImportedOptions(item), t),
                             Tail(items), skipExisting, oid + 1, t,
                             [results EXCEPT !.imported = @ + 1])

(* ---------------------------- search ----------------------------------- *)
\* values of data fields and of queries: a number, a string (its characters),
\* a nested object (the data object it is), or undefined
Num(n) == [num |-> n]
Str(s) == [str |-> s]
Obj(d) == [obj |-> d]
NoValue == [undef |-> TRUE]
NullValue == [null |-> TRUE]
Bool(b) == [bool |-> b]
Arr(items) == [arr |-> items]
Kind(v) == CHOOSE k \in DOMAIN v : TRUE

\* the fields of the data objects, in the order of Object.keys:
\*   100        {amount: 100, title: "Deed"}
\*   150        {amount: 150, title: "led"}
\*   NestedData {data: <100>, title: "Lease"}
\*   ListedData {amount: null, title: "Deed", owner: <100>, parties: [100],
\*               timestamp: 1}
\*   OwnedData  {owner: <150>, parties: [100, 150], active: true}
\*   MixedData  {owner: [100], parties: null, amount: "100", active: 1}
\*   Amount100  {amount: 100}
\*   Amount150  {amount: 150}
\* any other data object has no field that is looked at
ListedData == 250
OwnedData == 300
MixedData == 350
Amount100 == 400
Amount150 == 450
DataKeys(d) ==
    CASE d = 100 -> <<"amount", "title">>
      [] d = 150 -> <<"amount", "title">>
      [] d = NestedData -> <<"data", "title">>
      [] d = ListedData -> <<"amount", "title", "owner", "parties", "timestamp">>
      [] d = OwnedData -> <<"owner", "parties", "active">>
      [] d = MixedData -> <<"owner", "parties", "amount", "active">>
      [] d = Amount100 -> <<"amount">>
      [] d = Amount150 -> <<"amount">>
      [] OTHER -> <<>>
DataFields(d) ==
    CASE d = 100 -> [amount |-> Num(100), title |-> Str(<<"D", "e", "e", "d">>)]
      [] d = 150 -> [amount |-> Num(150), title |-> Str(<<"l", "e", "d">>)]
      [] d = NestedData -> [data |-> Obj(100),
                            title |-> Str(<<"L", "e", "a", "s", "e">>)]
      [] d = ListedData -> [amount |-> NullValue,
                            title |-> Str(<<"D", "e", "e", "d">>),
                            owner |-> Obj(100),
                            parties |-> Arr(<<Num(100)>>),
                            timestamp |-> Num(1)]
      [] d = OwnedData -> [owner |-> Obj(150),
                           parties |-> Arr(<<Num(100), Num(150)>>),
                           active |-> Bool(TRUE)]
      [] d = MixedData -> [owner |-> Arr(<<Num(100)>>),
                           parties |-> NullValue,
                           amount |-> Str(<<"1", "0", "0">>),
                           active |-> Num(1)]
      [] d = Amount100 -> [amount |-> Num(100)]
      [] d = Amount150 -> [amount |-> Num(150)]
      [] OTHER -> [k \in {} |-> NoValue]

\* path.split('.').reduce((o, p) => o?.[p], obj), the path given as its keys
RECURSIVE Reduce(_, _)
Reduce(o, path) ==
    IF path = <<>> THEN o
    ELSE IF Kind(o) = "obj" /\ Head(path) \in DOMAIN DataFields(o.obj)
         THEN Reduce(DataFields(o.obj)[Head(path)], Tail(path))
         ELSE NoValue
GetNestedValue(d, path) == Reduce(Obj(d), path)

\* String(value)
RECURSIVE Digits(_)
Digits(n) ==
    LET digit == <<"0", "1", "2", "3", "4", "5", "6", "7", "8", "9">>[(n % 10) + 1]
    IN IF n < 10 THEN <<digit>> ELSE Append(Digits(n \div 10), digit)
RECURSIVE String(_)
RECURSIVE Join(_)
Join(items) ==
    IF items = <<>> THEN <<>>
    ELSE LET first == IF Kind(Head(items)) \in {"null", "undef"} THEN <<>>
                      ELSE String(Head(items))
         IN IF Len(items) = 1 THEN first
            ELSE first \o <<",">> \o Join(Tail(items))
String(v) ==
    CASE Kind(v) = "num" -> Digits(v.num)
      [] Kind(v) = "str" -> v.str
      [] Kind(v) = "obj" -> <<"[", "o", "b", "j", "e", "c", "t", " ",
                              "O", "b", "j", "e", "c", "t", "]">>
      [] Kind(v) = "null" -> <<"n", "u", "l", "l">>
      [] Kind(v) = "bool" -> IF v.bool THEN <<"t", "r", "u", "e">>
                             ELSE <<"f", "a", "l", "s", "e">>
      [] Kind(v) = "arr" -> Join(v.arr)

\* a === b (a query never holds the stored object itself)
StrictEq(a, b) ==
    /\ Kind(a) = Kind(b)
    /\ \/ Kind(a) = "num" /\ a.num = b.num
       \/ Kind(a) = "str" /\ a.str = b.str
       \/ Kind(a) = "bool" /\ a.bool = b.bool
       \/ Kind(a) \in {"null", "undef"}

\* a > b for a number b: a string or an object that is not numeric converts
\* to NaN, and every comparison with NaN is false
Greater(a, b) == Kind(a) = "num" /\ Kind(b) = "num" /\ a.num > b.num
Less(a, b) == Kind(a) = "num" /\ Kind(b) = "num" /\ a.num < b.num

\* s.includes(sub)
Includes(s, sub) ==
    \E i \in 0..(Len(s) - Len(sub)) : SubSeq(s, i + 1, i + Len(sub)) = sub

\* new RegExp(pattern, flags).test(s) for a pattern of literal characters
LowerCase(c) ==
    CASE c = "D" -> "d" [] c = "L" -> "l" [] c = "O" -> "o" [] c = "E" -> "e"
      [] OTHER -> c
ToLower(s) == [i \in DOMAIN s |-> LowerCase(s[i])]
RegexTest(pattern, flags, s) ==
    IF "i" \in flags THEN Includes(ToLower(s), ToLower(pattern))
    ELSE Includes(s, pattern)

\* matches = { matched, score, fields }: the score counts tenths, so that the
\* weights 1, 0.9, 0.8 and 0.7 are 10, 9, 8 and 7
NoMatches == [matched |-> FALSE, score |-> 0, fields |-> <<>>]
Hit(matches, weight, field) ==
    [matched |-> TRUE, score |-> matches.score + weight,
     fields |-> Append(matches.fields, field)]

\* value.$flags || 'i': the flags are a set of letters, and no flags are falsy
Flags(ops) ==
    IF "flags" \in DOMAIN ops /\ ops.flags # {} THEN ops.flags ELSE {"i"}

\* OperatorMatches that stops at the first operator that matches
OperatorMatchesFirst(matches, field, fieldValue, ops) ==
    IF "eq" \in DOMAIN ops /\ StrictEq(fieldValue, ops.eq)
    THEN Hit(matches, 10, field)
    ELSE IF "contains" \in DOMAIN ops /\ Includes(String(fieldValue), ops.contains)
    THEN Hit(matches, 8, field)
    ELSE IF "gt" \in DOMAIN ops /\ Greater(fieldValue, ops.gt)
    THEN Hit(matches, 7, field)
    ELSE IF "lt" \in DOMAIN ops /\ Less(fieldValue, ops.lt)
    THEN Hit(matches, 7, field)
    ELSE IF "regex" \in DOMAIN ops
            /\ RegexTest(ops.regex, Flags(ops), String(fieldValue))
    THEN Hit(matches, 9, field)
    ELSE matches

\* the operators of one query field, tested one after the other
OperatorMatches(matches, field, fieldValue, ops) ==
    LET m1 == IF "eq" \in DOMAIN ops /\ StrictEq(fieldValue, ops.eq)
              THEN Hit(matches, 10, field) ELSE matches
        m2 == IF "contains" \in DOMAIN ops
                 /\ Includes(String(fieldValue), ops.contains)
              THEN Hit(m1, 8, field) ELSE m1
        m3 == IF "gt" \in DOMAIN ops /\ Greater(fieldValue, ops.gt)
              THEN Hit(m2, 7, field) ELSE m2
        m4 == IF "lt" \in DOMAIN ops /\ Less(fieldValue, ops.lt)
              THEN Hit(m3, 7, field) ELSE m3
    IN IF "regex" \in DOMAIN ops
          /\ RegexTest(ops.regex, Flags(ops), String(fieldValue))
       THEN Hit(m4, 9, field) ELSE m4

\* _matchesQuery(data, query) over the entries of the query that are left;
\* an entry is <<path, value>>, the value a literal or [ops |-> operators]
RECURSIVE MatchesQuery(_, _, _)
MatchesQuery(d, entries, matches) ==
    IF entries = <<>> THEN matches
    ELSE LET field == Head(entries)[1]
             value == Head(entries)[2]
             fieldValue == GetNestedValue(d, field)
         IN IF Kind(fieldValue) = "undef"
            THEN MatchesQuery(d, Tail(entries), matches)
            ELSE IF Kind(value) = "ops"
            THEN MatchesQuery(d, Tail(entries),
                              OperatorMatches(matches, field, fieldValue, value.ops))
            ELSE IF StrictEq(fieldValue, value)
            THEN MatchesQuery(d, Tail(entries), Hit(matches, 10, field))
            ELSE MatchesQuery(d, Tail(entries), matches)

\* the orders results.sort((a, b) => b.matchScore - a.matchScore) can leave
\* the matching entries in
SearchLimit == 50
SearchOrders(store, query) ==
    LET score(id) == MatchesQuery(store[id].data, query, NoMatches).score
        ids == {id \in DOMAIN store :
                   MatchesQuery(store[id].data, query, NoMatches).matched}
    IN {s \in [1..Cardinality(ids) -> ids] :
           /\ \A i, j \in DOMAIN s : i # j => s[i] # s[j]
           /\ \A i, j \in DOMAIN s : i < j => score(s[i]) >= score(s[j])}

\* the answer of search for one of the orders of its sort
SearchResult(store, query, limit, order) ==
    LET page == Slice(order, 0, IF limit = 0 THEN SearchLimit ELSE limit)
    IN [results |-> [i \in DOMAIN page |->
                        LET matches == MatchesQuery(store[page[i]].data, query,
                                                    NoMatches)
                        IN store[page[i]] @@ [matchScore |-> matches.score,
                                              matchedFields |-> matches.fields]],
        total |-> Len(order),
        query |-> query]

(* ---------------------------- DocumentComparator ----------------------- *)
\* the constructor's defaults
ignoreFields == {"extractionId", "timestamp", "durationMs"}
deepCompare == TRUE

\* typeof value
TypeOf(v) ==
    CASE Kind(v) = "num" -> "number" [] Kind(v) = "str" -> "string"
      [] Kind(v) = "undef" -> "undefined" [] Kind(v) = "bool" -> "boolean"
      [] OTHER -> "object"

\* a fraction n/d, for the significance of a change; never more than 1
Ratio(n, d) == IF n >= d THEN [n |-> 1, d |-> 1] ELSE [n |-> n, d |-> d]
Half == [n |-> 1, d |-> 2]
Abs(n) == IF n < 0 THEN 0 - n ELSE n
Max(a, b) == IF a >= b THEN a ELSE b

RECURSIVE CommonPrefixLength(_, _)
CommonPrefixLength(strA, strB) ==
    IF strA # <<>> /\ strB # <<>> /\ Head(strA) = Head(strB)
    THEN 1 + CommonPrefixLength(Tail(strA), Tail(strB))
    ELSE 0

CalculateSignificance(oldVal, newVal) ==
    IF Kind(oldVal) \in {"null", "undef"} \/ Kind(newVal) \in {"null", "undef"}
    THEN Half
    ELSE IF Kind(oldVal) = "num" /\ Kind(newVal) = "num"
    THEN Ratio(Abs(newVal.num - oldVal.num),
               IF oldVal.num = 0 THEN 1 ELSE Abs(oldVal.num))
    ELSE IF Kind(oldVal) = "str" /\ Kind(newVal) = "str"
    THEN LET maxLen == Max(Len(oldVal.str), Len(newVal.str))
         IN IF maxLen = 0 THEN [n |-> 0, d |-> 1]
            ELSE [n |-> maxLen - CommonPrefixLength(oldVal.str, newVal.str),
                  d |-> maxLen]
    ELSE Half

\* AreEqual without the comparison of the JSON texts
AreEqualPrimitive(a, b) == StrictEq(a, b)

\* _areEqual: a === b, or two objects with the same JSON text (an object or
\* an array is written here by its content, so the same content is the same
\* text)
AreEqual(a, b) ==
    IF StrictEq(a, b) THEN TRUE
    ELSE IF TypeOf(a) # TypeOf(b) THEN FALSE
    ELSE IF TypeOf(a) = "object" THEN Kind(a) = Kind(b) /\ a = b
    ELSE FALSE

\* the items of one array that are in the other one
RECURSIVE NotIn(_, _)
NotIn(items, others) ==
    IF items = <<>> THEN <<>>
    ELSE IF \E i \in 1..Len(others) : AreEqual(others[i], Head(items))
         THEN NotIn(Tail(items), others)
         ELSE <<Head(items)>> \o NotIn(Tail(items), others)

CompareArrays(arrA, arrB) ==
    [itemsAdded |-> Len(NotIn(arrB, arrA)), itemsRemoved |-> Len(NotIn(arrA, arrB)),
     added |-> NotIn(arrB, arrA), removed |-> NotIn(arrA, arrB)]

\* Object.keys(v || {}) and v?.[key] for an object, an array or null
IndexKeys == <<"0", "1", "2", "3", "4", "5", "6", "7", "8", "9">>
KeysOf(v) ==
    CASE Kind(v) = "obj" -> DataKeys(v.obj)
      [] Kind(v) = "arr" -> SubSeq(IndexKeys, 1, Len(v.arr))
      [] OTHER -> <<>>
ValueAt(v, key) ==
    CASE Kind(v) = "obj" /\ key \in DOMAIN DataFields(v.obj) -> DataFields(v.obj)[key]
      [] Kind(v) = "arr" /\ \E i \in 1..Len(v.arr) : IndexKeys[i] = key ->
            v.arr[CHOOSE i \in 1..Len(v.arr) : IndexKeys[i] = key]
      [] OTHER -> NoValue

\* AllKeys that keeps the keys of the first object only
AllKeysOfFirst(keysA, keysB) == keysA

\* new Set([...keysA, ...keysB]) in its order of insertion
RECURSIVE Without(_, _)
Without(keys, seen) ==
    IF keys = <<>> THEN <<>>
    ELSE IF Head(keys) \in seen THEN Without(Tail(keys), seen)
         ELSE <<Head(keys)>> \o Without(Tail(keys), seen)
AllKeys(keysA, keysB) ==
    keysA \o Without(keysB, {keysA[i] : i \in 1..Len(keysA)})

\* _compareValues answers null when the values are equal
NoDiff == [type |-> "none"]
NoDetails == [k \in {} |-> 0]

\* _compareValues, _compareObjects and the loop over the keys of two objects
RECURSIVE CompareValues(_, _, _)
RECURSIVE DiffsOver(_, _, _)
CompareObjects(objA, objB) ==
    LET changes == DiffsOver(AllKeys(KeysOf(objA), KeysOf(objB)), objA, objB)
    IN [nestedChanges |-> Len(changes), changes |-> changes]

DiffsOver(keys, objA, objB) ==
    IF keys = <<>> THEN <<>>
    ELSE LET diff == CompareValues(ValueAt(objA, Head(keys)),
                                   ValueAt(objB, Head(keys)), Head(keys))
         IN (IF diff.type = "none" THEN <<>> ELSE <<diff>>)
            \o DiffsOver(Tail(keys), objA, objB)

CompareValues(valueA, valueB, field) ==
    IF Kind(valueA) = "undef" /\ Kind(valueB) # "undef"
    THEN [field |-> field, type |-> "added", valueA |-> NullValue,
          valueB |-> valueB,
          significance |-> CalculateSignificance(NullValue, valueB),
          details |-> NoDetails]
    ELSE IF Kind(valueA) # "undef" /\ Kind(valueB) = "undef"
    THEN [field |-> field, type |-> "removed", valueA |-> valueA,
          valueB |-> NullValue,
          significance |-> CalculateSignificance(valueA, NullValue),
          details |-> NoDetails]
    ELSE IF AreEqual(valueA, valueB) THEN NoDiff
    ELSE LET typed ==
                 IF Kind(valueA) = "num" /\ Kind(valueB) = "num"
                 THEN [type |-> "numeric_change",
                       details |->
                          [delta |-> valueB.num - valueA.num,
                           percentChange |->
                              IF valueA.num # 0
                              THEN [n |-> (valueB.num - valueA.num) * 100,
                                    d |-> valueA.num]
                              ELSE NullValue]]
                 ELSE IF Kind(valueA) = "str" /\ Kind(valueB) = "str"
                 THEN [type |-> "text_change",
                       details |-> [lengthChange |->
                                       Len(valueB.str) - Len(valueA.str)]]
                 ELSE IF Kind(valueA) = "arr" /\ Kind(valueB) = "arr"
                 THEN [type |-> "array_change",
                       details |-> CompareArrays(valueA.arr, valueB.arr)]
                 ELSE IF deepCompare /\ TypeOf(valueA) = "object"
                         /\ TypeOf(valueB) = "object"
                 THEN [type |-> "object_change",
                       details |-> CompareObjects(valueA, valueB)]
                 ELSE [type |-> "modified", details |-> NoDetails]
         IN [field |-> field, type |-> typed.type, valueA |-> valueA,
             valueB |-> valueB,
             significance |-> CalculateSignificance(valueA, valueB),
             details |-> typed.details]

\* the number of differences of one type
RECURSIVE CountType(_, _)
CountType(differences, type) ==
    IF differences = <<>> THEN 0
    ELSE (IF Head(differences).type = type THEN 1 ELSE 0)
         + CountType(Tail(differences), type)

\* the sum of the significances, as a fraction
RECURSIVE SumSignificance(_)
SumSignificance(differences) ==
    IF differences = <<>> THEN [n |-> 0, d |-> 1]
    ELSE LET a == Head(differences).significance
             b == SumSignificance(Tail(differences))
         IN [n |-> a.n * b.d + b.n * a.d, d |-> a.d * b.d]

CalculateStats(differences, totalFields) ==
    LET added == CountType(differences, "added")
        removed == CountType(differences, "removed")
        sum == SumSignificance(differences)
    IN [totalFields |-> totalFields,
        totalDifferences |-> Len(differences),
        added |-> added,
        removed |-> removed,
        modified |-> Len(differences) - added - removed,
        changePercentage |-> IF totalFields > 0
                             THEN [n |-> Len(differences), d |-> totalFields]
                             ELSE [n |-> 0, d |-> 1],
        averageSignificance |-> IF Len(differences) > 0
                                THEN [n |-> sum.n, d |-> sum.d * Len(differences)]
                                ELSE [n |-> 0, d |-> 1]]

\* _generateSummary: the parts that are joined, each a count and what it counts
GenerateSummary(differences, stats) ==
    IF Len(differences) = 0 THEN <<[count |-> 0, of |-> "Documents are identical"]>>
    ELSE (IF stats.added > 0
          THEN <<[count |-> stats.added, of |-> "field(s) added"]>> ELSE <<>>)
         \o (IF stats.removed > 0
             THEN <<[count |-> stats.removed, of |-> "field(s) removed"]>> ELSE <<>>)
         \o (IF stats.modified > 0
             THEN <<[count |-> stats.modified, of |-> "field(s) modified"]>> ELSE <<>>)

\* the fields compare looks at: all keys but the ignored ones
RECURSIVE NotIgnored(_)
NotIgnored(fields) ==
    IF fields = <<>> THEN <<>>
    ELSE IF Head(fields) \in ignoreFields THEN NotIgnored(Tail(fields))
         ELSE <<Head(fields)>> \o NotIgnored(Tail(fields))

\* compare(docA, docB) for two entries of the register (docA.data is set)
Compare(docA, docB, t) ==
    LET dataA == Obj(docA.data)
        dataB == Obj(docB.data)
        allFields == AllKeys(KeysOf(dataA), KeysOf(dataB))
        differences == DiffsOver(NotIgnored(allFields), dataA, dataB)
        stats == CalculateStats(differences, Len(allFields))
    IN [timestamp |-> t,
        documentA |-> [id |-> docA.id, version |-> docA.version,
                       effectiveFrom |-> docA.effectiveFrom],
        documentB |-> [id |-> docB.id, version |-> docB.version,
                       effectiveFrom |-> docB.effectiveFrom],
        identical |-> Len(differences) = 0,
        differences |-> differences,
        statistics |-> stats,
        summary |-> GenerateSummary(differences, stats)]

(* ---------------------------- findConflicts ---------------------------- *)
\* new Date('9999-12-31'), as a time after every time of the clock
FarFuture == 99991231

\* a.effectiveTo for an object that may have no such property
EffectiveToOf(v) == IF "effectiveTo" \in DOMAIN v THEN v.effectiveTo ELSE NoDate

\* the test of _findOverlappingPeriods on two of the values of a field
PeriodsOverlap(a, b) ==
    LET aTo == IF EffectiveToOf(a) # NoDate THEN EffectiveToOf(a) ELSE FarFuture
        bTo == IF EffectiveToOf(b) # NoDate THEN EffectiveToOf(b) ELSE FarFuture
    IN a.effectiveFrom <= bTo /\ b.effectiveFrom <= aTo

\* the pairs values[i], values[j] with j > i, for i from "from" on
RECURSIVE OverlapsFrom(_, _, _)
OverlapsFrom(values, i, j) ==
    IF i > Len(values) THEN <<>>
    ELSE IF j > Len(values) THEN OverlapsFrom(values, i + 1, i + 2)
    ELSE LET a == values[i]
             b == values[j]
         IN (IF a.effectiveFrom = NoDate \/ b.effectiveFrom = NoDate THEN <<>>
             ELSE IF PeriodsOverlap(a, b)
             THEN <<[documents |-> <<a.documentId, b.documentId>>,
                     overlapStart |-> Max(a.effectiveFrom, b.effectiveFrom),
                     overlapEnd |->
                        LET aTo == IF EffectiveToOf(a) # NoDate
                                   THEN EffectiveToOf(a) ELSE FarFuture
                            bTo == IF EffectiveToOf(b) # NoDate
                                   THEN EffectiveToOf(b) ELSE FarFuture
                        IN IF aTo <= bTo THEN aTo ELSE bTo]>>
             ELSE <<>>)
            \o OverlapsFrom(values, i, j + 1)
FindOverlappingPeriods(values) == OverlapsFrom(values, 1, 2)

\* the values findConflicts collects for a field, one for every document that
\* has the field, in the order of the documents
RECURSIVE FieldValues(_, _)
FieldValues(documents, field) ==
    IF documents = <<>> THEN <<>>
    ELSE LET doc == Head(documents)
         IN (IF field \in DOMAIN DataFields(doc.data)
             THEN <<[documentId |-> doc.id, version |-> doc.version,
                     value |-> DataFields(doc.data)[field],
                     effectiveFrom |-> doc.effectiveFrom]>>
             ELSE <<>>)
            \o FieldValues(Tail(documents), field)

\* the fields of all the documents, in the order they are first met
RECURSIVE FieldsOf(_)
FieldsOf(documents) ==
    IF documents = <<>> THEN <<>>
    ELSE AllKeys(DataKeys(Head(documents).data), FieldsOf(Tail(documents)))

CalculateConflictSeverity(values) ==
    Ratio(Cardinality({values[i].documentId : i \in 1..Len(values)}), 10)

\* the conflicts of the fields left to check
RECURSIVE ConflictsOver(_, _)
ConflictsOver(fields, documents) ==
    IF fields = <<>> THEN <<>>
    ELSE LET values == FieldValues(documents, Head(fields))
             uniqueValues == {values[i].value : i \in 1..Len(values)}
             overlapping == FindOverlappingPeriods(values)
         IN (IF Cardinality(uniqueValues) > 1 /\ Len(overlapping) > 0
             THEN <<[field |-> Head(fields), type |-> "value_conflict",
                     severity |-> CalculateConflictSeverity(values),
                     documents |-> values,
                     overlappingPeriods |-> overlapping]>>
             ELSE <<>>)
            \o ConflictsOver(Tail(fields), documents)

\* conflicts.sort((a, b) => b.severity - a.severity): a stable sort, a
\* conflict put after those of at least its severity
RECURSIVE InsertBySeverity(_, _)
InsertBySeverity(sorted, conflict) ==
    IF sorted = <<>> THEN <<conflict>>
    ELSE IF Head(sorted).severity.n * conflict.severity.d
               >= conflict.severity.n * Head(sorted).severity.d
         THEN <<Head(sorted)>> \o InsertBySeverity(Tail(sorted), conflict)
         ELSE <<conflict>> \o sorted
RECURSIVE SortBySeverity(_)
SortBySeverity(conflicts) ==
    IF conflicts = <<>> THEN <<>>
    ELSE InsertBySeverity(SortBySeverity(SubSeq(conflicts, 1, Len(conflicts) - 1)),
                          conflicts[Len(conflicts)])

\* findConflicts(documents) for entries of the register
FindConflictsResult(documents) ==
    LET conflicts == ConflictsOver(FieldsOf(documents), documents)
    IN [hasConflicts |-> Len(conflicts) > 0,
        conflictCount |-> Len(conflicts),
        conflicts |-> SortBySeverity(conflicts)]

(* ------------------- extractBatch / processBatch ----------------------- *)
\* a batch call: the documents (each one's operation either resolves or
\* rejects), the chunk size, the loop index i, the positions whose operation
\* is started and not settled, the chunk's settled results by position, and
\* the results pushed so far
MaxDocs == 4
DefaultConcurrency == 3
Outcomes == {"resolve", "reject"}
NoBatch ==
    [pc |-> "idle", helper |-> "", documents |-> <<>>, option |-> 0,
     concurrency |-> 0, i |-> 0, inFlight |-> {}, settled |-> <<>>, results |-> <<>>]

\* options.concurrency || 3
ConcurrencyOf(option) == IF option = 0 THEN DefaultConcurrency ELSE option

\* a chunk that takes every document from i on
ChunkToEnd(documents, i, concurrency) ==
    {k \in i..(Len(documents) - 1) : TRUE}

\* the positions (from 0) of documents.slice(i, i + concurrency)
Chunk(documents, i, concurrency) ==
    {k \in i..(i + concurrency - 1) : k < Len(documents)}

\* what .then / .catch make of the operation at position k
BatchResult(documents, k) ==
    IF documents[k + 1] = "resolve"
    THEN [index |-> k, error |-> ""]
    ELSE [index |-> k, error |-> "failed"]

\* the results of Promise.all for a chunk: in the order of the chunk
RECURSIVE ChunkResults(_, _, _)
ChunkResults(settled, i, n) ==
    IF n = 0 THEN <<>>
    ELSE <<settled[i]>> \o ChunkResults(settled, i + 1, n - 1)

(* ---------------------------- compareVersions -------------------------- *)
\* the version objects compareVersions builds: the head (version and data
\* only), then the history records as they are stored
HeadVersion(entry) ==
    [version |-> entry.version, data |-> entry.data, effectiveFrom |-> NoDate,
     effectiveTo |-> NoDate]
RECURSIVE HistoricVersions(_)
HistoricVersions(history) ==
    IF history = <<>> THEN <<>>
    ELSE <<[version |-> Head(history).version, data |-> Head(history).data,
            effectiveFrom |-> Head(history).effectiveFrom,
            effectiveTo |-> Head(history).effectiveTo]>>
         \o HistoricVersions(Tail(history))

\* SortByVersion that leaves the versions in the order of the array
Unsorted(versions) == versions

\* .sort((a, b) => a.version - b.version): ascending, equal versions keeping
\* their order
RECURSIVE InsertByVersion(_, _)
InsertByVersion(sorted, v) ==
    IF sorted = <<>> THEN <<v>>
    ELSE IF Head(sorted).version <= v.version
         THEN <<Head(sorted)>> \o InsertByVersion(Tail(sorted), v)
         ELSE <<v>> \o sorted
RECURSIVE SortByVersion(_)
SortByVersion(versions) ==
    IF versions = <<>> THEN <<>>
    ELSE InsertByVersion(SortByVersion(SubSeq(versions, 1, Len(versions) - 1)),
                         versions[Len(versions)])

\* the document {data, version} handed to compare
VersionDocument(v) ==
    [id |-> Undefined, version |-> v.version, effectiveFrom |-> NoDate,
     data |-> v.data]

\* the timeline: one entry for versions[i - 1] and versions[i], i from 1
RECURSIVE Timeline(_, _, _)
Timeline(versions, i, t) ==
    IF i > Len(versions) THEN <<>>
    ELSE LET prev == versions[i - 1]
             curr == versions[i]
             comparison == Compare(VersionDocument(prev), VersionDocument(curr), t)
         IN <<[fromVersion |-> prev.version,
               toVersion |-> curr.version,
               effectiveFrom |-> curr.effectiveFrom,
               changes |-> comparison.differences,
               changeCount |-> Len(comparison.differences),
               statistics |-> comparison.statistics]>>
            \o Timeline(versions, i + 1, t)

\* _getMostChangedFields: the fields of all changes in the order in which
\* they first appear, each with the number of changes, sorted by that number,
\* descending, the first ten
MostChangedLimit == 10
RECURSIVE ChangedFields(_)
ChangedFields(timeline) ==
    IF timeline = <<>> THEN <<>>
    ELSE [i \in 1..Len(Head(timeline).changes) |-> Head(timeline).changes[i].field]
         \o ChangedFields(Tail(timeline))
RECURSIVE FirstOccurrences(_, _)
FirstOccurrences(fields, seen) ==
    IF fields = <<>> THEN <<>>
    ELSE IF Head(fields) \in seen THEN FirstOccurrences(Tail(fields), seen)
    ELSE <<Head(fields)>> \o FirstOccurrences(Tail(fields), seen \cup {Head(fields)})
CountOf(fields, field) ==
    Cardinality({i \in 1..Len(fields) : fields[i] = field})
RECURSIVE InsertByCount(_, _)
InsertByCount(sorted, c) ==
    IF sorted = <<>> THEN <<c>>
    ELSE IF Head(sorted).changeCount >= c.changeCount
         THEN <<Head(sorted)>> \o InsertByCount(Tail(sorted), c)
         ELSE <<c>> \o sorted
RECURSIVE SortByCount(_)
SortByCount(counts) ==
    IF counts = <<>> THEN <<>>
    ELSE InsertByCount(SortByCount(SubSeq(counts, 1, Len(counts) - 1)),
                       counts[Len(counts)])
GetMostChangedFields(timeline) ==
    LET fields == ChangedFields(timeline)
        order == FirstOccurrences(fields, {})
        counts == [i \in 1..Len(order) |->
                      [field |-> order[i], changeCount |-> CountOf(fields, order[i])]]
    IN Slice(SortByCount(counts), 0, MostChangedLimit)

RECURSIVE SumChangeCount(_)
SumChangeCount(timeline) ==
    IF timeline = <<>> THEN 0
    ELSE Head(timeline).changeCount + SumChangeCount(Tail(timeline))

\* compareVersions(documentWithHistory) for an entry of the register
CompareVersionsResult(entry, t) ==
    LET versions == SortByVersion(<<HeadVersion(entry)>>
                                  \o HistoricVersions(entry.history))
        timeline == Timeline(versions, 2, t)
    IN [documentId |-> entry.id,
        versionCount |-> Len(versions),
        timeline |-> timeline,
        totalChanges |-> SumChangeCount(timeline),
        mostChangedFields |-> GetMostChangedFields(timeline)]

(* ---------------------------- findOverlaps ----------------------------- *)
\* fieldGroups.map(f => data[f]).join('|'): null and undefined give the
\* empty string, every other value its String
RECURSIVE GroupKey(_, _)
GroupKey(data, fields) ==
    IF fields = <<>> THEN <<>>
    ELSE LET value == ValueAt(data, Head(fields))
             first == IF Kind(value) \in {"null", "undef"} THEN <<>>
                      ELSE String(value)
         IN IF Len(fields) = 1 THEN first
            ELSE first \o <<"|">> \o GroupKey(data, Tail(fields))

\* the Map of groups, as the sequence of its keys in the order of insertion
\* and the documents of a key in the order of the documents
RECURSIVE GroupKeys(_, _)
GroupKeys(documents, fields) ==
    IF documents = <<>> THEN <<>>
    ELSE AllKeys(<<GroupKey(Obj(Head(documents).data), fields)>>,
                 GroupKeys(Tail(documents), fields))
RECURSIVE GroupDocs(_, _, _)
GroupDocs(documents, fields, key) ==
    IF documents = <<>> THEN <<>>
    ELSE (IF GroupKey(Obj(Head(documents).data), fields) = key
          THEN <<[id |-> Head(documents).id, version |-> Head(documents).version]>>
          ELSE <<>>)
         \o GroupDocs(Tail(documents), fields, key)
RECURSIVE DuplicateGroups(_, _, _)
DuplicateGroups(keys, documents, fields) ==
    IF keys = <<>> THEN <<>>
    ELSE LET groupDocs == GroupDocs(documents, fields, Head(keys))
         IN (IF Len(groupDocs) > 1
             THEN <<[type |-> "duplicate_group", groupKey |-> Head(keys),
                     fields |-> fields, documents |-> groupDocs,
                     count |-> Len(groupDocs)]>>
             ELSE <<>>)
            \o DuplicateGroups(Tail(keys), documents, fields)

\* _calculateSimilarity: the share of the fields of both records whose
\* values are equal
RECURSIVE MatchingFields(_, _, _)
MatchingFields(keys, dataA, dataB) ==
    IF keys = <<>> THEN 0
    ELSE (IF AreEqual(ValueAt(dataA, Head(keys)), ValueAt(dataB, Head(keys)))
          THEN 1 ELSE 0)
         + MatchingFields(Tail(keys), dataA, dataB)
CalculateSimilarity(docA, docB) ==
    LET dataA == Obj(docA.data)
        dataB == Obj(docB.data)
        allKeys == AllKeys(KeysOf(dataA), KeysOf(dataB))
    IN IF Len(allKeys) > 0
       THEN [n |-> MatchingFields(allKeys, dataA, dataB), d |-> Len(allKeys)]
       ELSE [n |-> 1, d |-> 1]

\* options.similarityThreshold || 0.9
SimilarityThreshold == [n |-> 9, d |-> 10]

\* the pairs documents[i], documents[j], j > i, that are similar enough
RECURSIVE SimilarFrom(_, _, _)
SimilarFrom(documents, i, j) ==
    IF i > Len(documents) THEN <<>>
    ELSE IF j > Len(documents) THEN SimilarFrom(documents, i + 1, i + 2)
    ELSE LET similarity == CalculateSimilarity(documents[i], documents[j])
         IN (IF similarity.n * SimilarityThreshold.d
                   > SimilarityThreshold.n * similarity.d
             THEN <<[type |-> "high_similarity", similarity |-> similarity,
                     documentA |-> [id |-> documents[i].id,
                                    version |-> documents[i].version],
                     documentB |-> [id |-> documents[j].id,
                                    version |-> documents[j].version]]>>
             ELSE <<>>)
            \o SimilarFrom(documents, i, j + 1)

\* findOverlaps(documents, {groupByFields}) for entries of the register
FindOverlapsResult(documents, fieldGroups) ==
    LET groups == IF Len(fieldGroups) > 0
                  THEN DuplicateGroups(GroupKeys(documents, fieldGroups),
                                       documents, fieldGroups)
                  ELSE <<>>
        overlaps == groups \o SimilarFrom(documents, 1, 2)
    IN [hasOverlaps |-> Len(overlaps) > 0,
        overlapCount |-> Len(overlaps),
        overlaps |-> overlaps]

Init ==
    /\ storage = [i \in {} |-> NoObject]
    /\ auditLog = <<>>
    /\ indexes = [category |-> [k \in {} |-> {}], tags |-> [k \in {} |-> {}]]
    /\ now = 1
    /\ nextOid = 1
    /\ calls = [c \in Callers |-> Idle]
    /\ result = [c \in Callers |-> NoResult]
    /\ fresh = EmptyRegister
    /\ pendingApprovals = {}
    /\ runs = [r \in {} |-> NoObject]
    /\ processingHistory = <<>>
    /\ batch = NoBatch

\* the clock advances between any two steps
Tick ==
    /\ now < MaxTime
    /\ now' = now + 1
    /\ UNCHANGED <<storage, auditLog, indexes, nextOid, calls, result>>
    /\ UNCHANGED outside

\* add(document, options) with options.id = id; it has no suspension point
Add(c, id, document, options) ==
    LET entry == NewEntry(id, nextOid, document, options, now)
    IN /\ calls[c].pc = "idle"
       /\ Len(auditLog) + Pending < MaxAudit
       /\ storage' = StorageSet(storage, id, entry)
       /\ indexes' = UpdateIndexes(indexes, entry)
       /\ auditLog' = IF enableAuditLog
                      THEN LogAudit(auditLog, "ADD", id,
                                    [version |-> 1,
                                     effectiveFrom |-> entry.effectiveFrom], now)
                      ELSE auditLog
       /\ nextOid' = nextOid + 1
       /\ result' = Completed(c, "add", id, NoVersion, NoDate, <<document, options>>, 0,
                        Returned([id |-> id, version |-> 1, createdAt |-> now,
                                  status |-> "created"]))
       /\ UNCHANGED <<now, calls>>
       /\ UNCHANGED outside

\* FinishUpdate that creates the entry when the id is not stored
FinishUpdateUpsert(c, existing, id, document, options) ==
    LET updated == IF existing.oid = 0
                   THEN NewEntry(id, nextOid, document,
                                 [effectiveFrom |-> options.effectiveFrom,
                                  effectiveTo |-> options.effectiveTo,
                                  status |-> Undefined, source |-> Undefined,
                                  tags |-> {}, category |-> Undefined,
                                  metadata |-> options.metadata], now)
                   ELSE UpdatedEntry(existing, nextOid, document, options, now)
    IN /\ storage' = StorageSet(storage, id, updated)
       /\ indexes' = UpdateIndexes(indexes, updated)
       /\ auditLog' = LogAudit(auditLog, "UPDATE", id,
                               [previousVersion |-> updated.version - 1,
                                newVersion |-> updated.version,
                                effectiveFrom |-> updated.effectiveFrom], now)
       /\ nextOid' = nextOid + 1
       /\ result' = Completed(c, "update", id, NoVersion, NoDate,
                        <<document, options>>, existing.oid,
                        Returned([id |-> id, version |-> updated.version,
                                  previousVersion |-> updated.version - 1,
                                  updatedAt |-> now, status |-> "updated"]))

\* update from "const now" on, for the object its get returned
FinishUpdate(c, existing, id, document, options) ==
    IF existing.oid = 0
    THEN /\ result' = Completed(c, "update", id, NoVersion, NoDate,
                        <<document, options>>, existing.oid,
                                Thrown("Document not found"))
         /\ UNCHANGED <<storage, indexes, auditLog, nextOid>>
    ELSE LET updated == UpdatedEntry(existing, nextOid, document, options, now)
         IN /\ storage' = StorageSet(storage, id, updated)
            /\ indexes' = UpdateIndexes(indexes, updated)
            /\ auditLog' = IF enableAuditLog
                           THEN LogAudit(auditLog, "UPDATE", id,
                                    [previousVersion |-> existing.version,
                                     newVersion |-> updated.version,
                                     effectiveFrom |-> updated.effectiveFrom], now)
                           ELSE auditLog
            /\ nextOid' = nextOid + 1
            /\ result' = Completed(c, "update", id, NoVersion, NoDate,
                        <<document, options>>, existing.oid,
                            Returned([id |-> id, version |-> updated.version,
                                      previousVersion |-> existing.version,
                                      updatedAt |-> now, status |-> "updated"]))

\* update(id, document, options) run to completion with no other call in between
Update(c, id, document, options) ==
    /\ calls[c].pc = "idle"
    /\ Len(auditLog) + Pending < MaxAudit
    /\ Lookup(id).oid # 0 => Lookup(id).version < MaxVersion
    /\ FinishUpdate(c, Lookup(id), id, document, options)
    /\ UNCHANGED <<now, calls>>
    /\ UNCHANGED outside

\* get(id, {version, asOf}); NoVersion and NoDate stand for an absent option
Get(c, id, version, asOf) ==
    LET entry == Lookup(id)
        after == AfterGet(entry, version, asOf)
    IN /\ calls[c].pc = "idle"
       /\ result' = Completed(c, "get", id, version, asOf, NoArgs, entry.oid,
                              GetOutcome(entry, version, asOf))
       /\ storage' = StorageWith(entry.oid, after)
       /\ calls' = CallsWith(entry.oid, after)
       /\ UNCHANGED <<auditLog, indexes, now, nextOid>>
       /\ UNCHANGED outside

\* getHistory(id) run to completion
GetHistory(c, id) ==
    /\ calls[c].pc = "idle"
    /\ result' = Completed(c, "getHistory", id, NoVersion, NoDate, NoArgs,
                           Lookup(id).oid,
                           GetHistoryOutcome(Lookup(id)))
    /\ UNCHANGED <<storage, auditLog, indexes, now, nextOid, calls>>
    /\ UNCHANGED outside

\* archive from "entry.status = ..." on, for the object its get returned
FinishArchive(c, entry, id) ==
    IF entry.oid = 0
    THEN /\ result' = Completed(c, "archive", id, NoVersion, NoDate, NoArgs, entry.oid,
                                Thrown("Document not found"))
         /\ UNCHANGED <<storage, auditLog>>
    ELSE LET archived == ArchivedEntry(entry, now)
         IN /\ storage' = StorageSet(StorageWith(entry.oid, archived), id, archived)
            /\ auditLog' = IF enableAuditLog
                           THEN LogAudit(auditLog, "ARCHIVE", id,
                                         [reason |-> Undefined], now)
                           ELSE auditLog
            /\ result' = Completed(c, "archive", id, NoVersion, NoDate, NoArgs, entry.oid,
                            Returned([id |-> id, status |-> "archived",
                                      archivedAt |-> now]))

\* archive(id) run to completion with no other call in between
Archive(c, id) ==
    /\ calls[c].pc = "idle"
    /\ Len(auditLog) + Pending < MaxAudit
    /\ FinishArchive(c, Lookup(id), id)
    /\ calls' = CallsWith(Lookup(id).oid, ArchivedEntry(Lookup(id), now))
    /\ UNCHANGED <<indexes, now, nextOid>>
    /\ UNCHANGED outside

\* update(id, document, options) up to its "await this.get(id)": the call
\* holds the entry object get returned and is suspended
BeginUpdate(c, id, document, options) ==
    /\ calls[c].pc = "idle"
    /\ Len(auditLog) + Pending < MaxAudit
    /\ Lookup(id).oid # 0 => Lookup(id).version < MaxVersion
    /\ calls' = [calls EXCEPT ![c] = [pc |-> "update", existing |-> Lookup(id),
                                      id |-> id, document |-> document,
                                      options |-> options]]
    /\ UNCHANGED <<storage, auditLog, indexes, now, nextOid, result>>
    /\ UNCHANGED outside

\* the rest of update, when the call is resumed
EndUpdate(c) ==
    /\ calls[c].pc = "update"
    /\ FinishUpdate(c, calls[c].existing, calls[c].id, calls[c].document,
                    calls[c].options)
    /\ calls' = [calls EXCEPT ![c] = Idle]
    /\ UNCHANGED now
    /\ UNCHANGED outside

\* archive(id) up to its "await this.get(id)"
BeginArchive(c, id) ==
    /\ calls[c].pc = "idle"
    /\ Len(auditLog) + Pending < MaxAudit
    /\ calls' = [calls EXCEPT ![c] = [pc |-> "archive", existing |-> Lookup(id),
                                      id |-> id]]
    /\ UNCHANGED <<storage, auditLog, indexes, now, nextOid, result>>
    /\ UNCHANGED outside

\* the rest of archive, when the call is resumed
EndArchive(c) ==
    /\ calls[c].pc = "archive"
    /\ FinishArchive(c, calls[c].existing, calls[c].id)
    /\ calls' = [CallsWith(calls[c].existing.oid,
                           ArchivedEntry(calls[c].existing, now))
                    EXCEPT ![c] = Idle]
    /\ UNCHANGED <<indexes, now, nextOid>>
    /\ UNCHANGED outside

(* ------------------- the register used by one caller ------------------- *)
\* every call is awaited before the next one is made; id "b" is never added
Caller == "c1"
AddCalls == {<<BareDocument(100), DefaultAdd>>, <<ExtractedDocument(150), TaggedAdd>>}
UpdateCalls == {<<BareDocument(150), DefaultUpdate>>,
                <<ExtractedDocument(100), DefaultUpdate>>,
                <<BareDocument(100), ReviewedUpdate>>}
GetCalls == {<<v, NoDate>> : v \in {NoVersion} \cup (0..(MaxVersion + 1))}
            \cup {<<NoVersion, t>> : t \in Times}

Next ==
    \/ Tick
    \/ \E call \in AddCalls : Add(Caller, "a", call[1], call[2])
    \/ \E id \in Ids, call \in UpdateCalls : Update(Caller, id, call[1], call[2])
    \/ \E id \in Ids, call \in GetCalls : Get(Caller, id, call[1], call[2])
    \/ \E id \in Ids : GetHistory(Caller, id)
    \/ \E id \in Ids : Archive(Caller, id)

Spec == Init /\ [][Next]_vars

(* ------------------- the register with explicit dates ------------------ *)
\* one caller, one entry; add and update are given effectiveFrom and
\* effectiveTo, and get is asked for every time of the clock
DatedAddCalls ==
    {<<BareDocument(100), DatedAdd(from, to)>> :
        from \in {NoDate} \cup Times, to \in {NoDate} \cup Times}
DatedUpdateCalls ==
    {<<BareDocument(150), DatedUpdate(from, to)>> :
        from \in {NoDate} \cup Times, to \in {NoDate} \cup Times}
AsOfCalls == {<<NoVersion, t>> : t \in {NoDate} \cup Times}

NextTemporal ==
    \/ Tick
    \/ \E call \in DatedAddCalls :
          ~Stored("a") /\ Add(Caller, "a", call[1], call[2])
    \/ \E call \in DatedUpdateCalls : Update(Caller, "a", call[1], call[2])
    \/ \E call \in AsOfCalls : Get(Caller, "a", call[1], call[2])
    \/ Archive(Caller, "a")

SpecTemporal == Init /\ [][NextTemporal]_vars

(* ------------------- the register used by two callers ------------------ *)
\* calls of different callers overlap: a call suspended at its await lets the
\* other caller's calls run; nothing serialises the calls on one id.  Every
\* document written carries data that is not stored and that no call in
\* progress and no caller's last call has written.
WrittenData ==
    UNION {{storage[id].data} \cup {storage[id].history[i].data :
                                       i \in 1..Len(storage[id].history)} :
             id \in DOMAIN storage}
    \cup {calls[c].document.data : c \in {x \in Callers : calls[x].pc = "update"}}
    \cup {result[c].args[1].data :
             c \in {x \in Callers : result[x].op \in {"add", "update"}}}
FreshData == {100 + 50 * k : k \in 0..MaxAudit} \ WrittenData
FreshDocuments ==
    {BareDocument(d) : d \in {x \in FreshData : \A y \in FreshData : x <= y}}

NextConcurrent ==
    \/ Tick
    \/ \E c \in Callers, document \in FreshDocuments :
          ~Stored("a") /\ Add(c, "a", document, DefaultAdd)
    \/ \E c \in Callers, document \in FreshDocuments :
          BeginUpdate(c, "a", document, DefaultUpdate)
    \/ \E c \in Callers : EndUpdate(c)
    \/ \E c \in Callers : BeginArchive(c, "a")
    \/ \E c \in Callers : EndArchive(c)
    \/ \E c \in Callers : Get(c, "a", NoVersion, 1)

SpecConcurrent == Init /\ [][NextConcurrent]_vars

(* ------------------- export and import --------------------------------- *)
\* export() run to completion: a read; the caller gets the payload
Export(c) ==
    /\ calls[c].pc = "idle"
    /\ \E order \in ListOrders(storage, ListAll) :
          result' = Completed(c, "export", "", NoVersion, NoDate, NoArgs, 0,
                              Returned(ExportPayload(storage, order, now)))
    /\ UNCHANGED <<storage, auditLog, indexes, now, nextOid, calls, outside>>

\* import(data, {skipExisting}) on this register, run to completion
Import(c, items, skipExisting) ==
    LET done == ImportItems(ThisRegister, items, skipExisting, nextOid, now,
                            NoImportResults)
    IN /\ calls[c].pc = "idle"
       /\ Len(auditLog) + Pending + Len(items) <= MaxAudit
       /\ storage' = done.register.storage
       /\ indexes' = done.register.indexes
       /\ auditLog' = done.register.auditLog
       /\ nextOid' = done.nextOid
       /\ result' = Completed(c, "import", "", NoVersion, NoDate,
                              <<items, skipExisting, "this">>, 0,
                              Returned(done.results))
       /\ UNCHANGED <<now, calls, outside>>

\* new DocumentRegister().import(payload) for the payload the caller's export
\* returned: the second register is built and imported into once
ImportExported(c) ==
    LET items == result[c].value.entries
        done == ImportItems(EmptyRegister, items, FALSE, nextOid, now,
                            NoImportResults)
    IN /\ calls[c].pc = "idle"
       /\ result[c].op = "export"
       /\ fresh = EmptyRegister
       /\ fresh' = done.register
       /\ nextOid' = done.nextOid
       /\ result' = Completed(c, "import", "", NoVersion, NoDate,
                              <<items, FALSE, "fresh">>, 0,
                              Returned(done.results))
       /\ UNCHANGED <<storage, auditLog, indexes, now, calls, pipeline, batch>>

\* one caller; id "a" is added and updated, id "b" arrives by import only
PayloadItem(id, d) ==
    [id |-> id, data |-> d, effectiveFrom |-> 1, effectiveTo |-> NoDate,
     status |-> "active", metadata |-> NoMeta]
ImportPayloads ==
    {<<PayloadItem("a", 150), PayloadItem("b", 100)>>,
     <<PayloadItem("b", 100), PayloadItem("a", 150)>>,
     <<PayloadItem("b", 100)>>}
ExportedAddCalls ==
    {<<ExtractedDocument(150), TaggedAdd>>, <<BareDocument(NestedData), DefaultAdd>>}

NextImport ==
    \/ Tick
    \/ \E call \in ExportedAddCalls :
          ~Stored("a") /\ Add(Caller, "a", call[1], call[2])
    \/ Update(Caller, "a", BareDocument(100), ReviewedUpdate)
    \/ Archive(Caller, "a")
    \/ \E items \in ImportPayloads, skipExisting \in BOOLEAN :
          Import(Caller, items, skipExisting)
    \/ Export(Caller)
    \/ ImportExported(Caller)

SpecImport == Init /\ [][NextImport]_vars

(* ------------------- search -------------------------------------------- *)
\* search(query, {limit}) run to completion: a read
Search(c, query, limit) ==
    /\ calls[c].pc = "idle"
    /\ \E order \in SearchOrders(storage, query) :
          result' = Completed(c, "search", "", NoVersion, NoDate,
                              <<query, limit>>, 0,
                              Returned(SearchResult(storage, query, limit, order)))
    /\ UNCHANGED <<storage, auditLog, indexes, now, nextOid, calls, outside>>

\* the queries asked: a literal, two operators on one field, operators on two
\* fields, a nested path, a field no data object has, and a substring of a
\* number
Queries ==
    {<<<<(<<"amount">>), Num(100)>>>>,
     <<<<(<<"amount">>), [ops |-> [gt |-> Num(100), lt |-> Num(200)]]>>>>,
     <<<<(<<"title">>), [ops |-> [contains |-> <<"e", "d">>,
                                  regex |-> <<"d", "E", "E">>]]>>,
       <<(<<"amount">>), [ops |-> [eq |-> Num(150)]]>>>>,
     <<<<(<<"title">>), [ops |-> [regex |-> <<"l", "e">>, flags |-> {"g"}]]>>>>,
     <<<<(<<"data", "amount">>), Num(100)>>,
       <<(<<"title">>), Str(<<"l", "e", "d">>)>>>>,
     <<<<(<<"zip">>), Num(100)>>>>,
     <<<<(<<"amount">>), [ops |-> [contains |-> <<"0", "0">>]]>>>>}

\* one caller; ids "a" and "b" are added once each, "a" is updated
SearchedData == {100, 150, NestedData}

NextSearch ==
    \/ \E id \in Ids, d \in SearchedData :
          ~Stored(id) /\ Add(Caller, id, BareDocument(d), DefaultAdd)
    \/ \E d \in SearchedData : Update(Caller, "a", BareDocument(d), DefaultUpdate)
    \/ \E query \in Queries : Search(Caller, query, 0)

SpecSearch == Init /\ [][NextSearch]_vars

(* ------------------- the comparator on entries of the register --------- *)
\* compare(docA, docB) for the stored entries of two ids
CompareDocuments(c, idA, idB) ==
    /\ calls[c].pc = "idle"
    /\ Stored(idA) /\ Stored(idB)
    /\ result' = Completed(c, "compare", "", NoVersion, NoDate, <<idA, idB>>, 0,
                           Returned(Compare(storage[idA], storage[idB], now)))
    /\ UNCHANGED <<storage, auditLog, indexes, now, nextOid, calls, outside>>

\* compare(docA, docB) and then compare(docB, docA)
CompareBothWays(c, idA, idB) ==
    /\ calls[c].pc = "idle"
    /\ Stored(idA) /\ Stored(idB)
    /\ result' = Completed(c, "compareBoth", "", NoVersion, NoDate, <<idA, idB>>, 0,
                           Returned([forward |-> Compare(storage[idA], storage[idB], now),
                                     backward |-> Compare(storage[idB], storage[idA], now)]))
    /\ UNCHANGED <<storage, auditLog, indexes, now, nextOid, calls, outside>>

\* findConflicts(documents) for the stored entries of the ids, in their order
FindConflicts(c, ids) ==
    /\ calls[c].pc = "idle"
    /\ \A i \in 1..Len(ids) : Stored(ids[i])
    /\ result' = Completed(c, "findConflicts", "", NoVersion, NoDate, <<ids>>, 0,
                           Returned(FindConflictsResult(
                                       [i \in 1..Len(ids) |-> storage[ids[i]]])))
    /\ UNCHANGED <<storage, auditLog, indexes, now, nextOid, calls, outside>>

\* findOverlaps(documents, {groupByFields}) for the stored entries of the ids
FindOverlaps(c, ids, fieldGroups) ==
    /\ calls[c].pc = "idle"
    /\ \A i \in 1..Len(ids) : Stored(ids[i])
    /\ result' = Completed(c, "findOverlaps", "", NoVersion, NoDate,
                           <<ids, fieldGroups>>, 0,
                           Returned(FindOverlapsResult(
                                       [i \in 1..Len(ids) |-> storage[ids[i]]],
                                       fieldGroups)))
    /\ UNCHANGED <<storage, auditLog, indexes, now, nextOid, calls, outside>>

GroupByFields == {<<"amount">>, <<"owner">>, <<"title", "amount">>}

\* one caller; ids "a" and "b" are added once each, with a period of validity
ComparedData == {100, 150, NestedData, ListedData, OwnedData, MixedData}
Dates == {NoDate} \cup (1..(MaxTime + 1))
Periods ==
    {<<from, to>> \in Dates \X Dates : to = NoDate \/ (from # NoDate /\ from < to)}

NextCompare ==
    \/ \E id \in Ids, d \in ComparedData, period \in Periods :
          ~Stored(id) /\ Add(Caller, id, BareDocument(d),
                             DatedAdd(period[1], period[2]))
    \/ \E idA, idB \in Ids : CompareDocuments(Caller, idA, idB)
    \/ \E idA, idB \in Ids : CompareBothWays(Caller, idA, idB)
    \/ \E ids \in {<<"a", "b">>, <<"b", "a">>} : FindConflicts(Caller, ids)
    \/ \E fieldGroups \in GroupByFields :
          FindOverlaps(Caller, <<"a", "b">>, fieldGroups)

SpecCompare == Init /\ [][NextCompare]_vars

(* ------------------- the comparator on the versions of an entry -------- *)
\* compareVersions(entry) for the stored entry of an id
CompareVersions(c, id) ==
    /\ calls[c].pc = "idle"
    /\ Stored(id)
    /\ result' = Completed(c, "compareVersions", id, NoVersion, NoDate, NoArgs,
                           storage[id].oid,
                           Returned(CompareVersionsResult(storage[id], now)))
    /\ UNCHANGED <<storage, auditLog, indexes, now, nextOid, calls, outside>>

\* one caller and one entry: it is added, updated with other data, read as
\* of a time (which may reverse its history) and its versions are compared
VersionedData == {Amount100, Amount150, 100, OwnedData}

NextVersions ==
    \/ Tick
    \/ \E d \in VersionedData :
          ~Stored("a") /\ Add(Caller, "a", BareDocument(d), DefaultAdd)
    \/ \E d \in VersionedData :
          Update(Caller, "a", BareDocument(d), DefaultUpdate)
    \/ \E t \in Times : Get(Caller, "a", NoVersion, t)
    \/ CompareVersions(Caller, "a")

SpecVersions == Init /\ [][NextVersions]_vars

(* ------------------- ExtractionPipeline -------------------------------- *)
\* the configuration: autoValidate and autoRegister are on by default,
\* requireHumanApproval is switched on; the thresholds are the defaults 0.8
\* and 1.0, in hundredths
autoValidate == TRUE
autoRegister == TRUE
requireHumanApproval == TRUE
confidenceThreshold == 80
validationThreshold == 100
HistoryLimit == 1000

\* the ids uuidv4() gives to the runs, and to the entries the pipeline's
\* register adds (the n-th entry added gets the n-th of them)
RunIds == {"r1", "r2"}
Uuids == <<"u1", "u2", "u3", "u4", "u5", "u6">>
RunData(run) == IF run = "r1" THEN 100 ELSE 150

\* what the extractor and the validator answer for a document
Extraction(run, confidence) ==
    [data |-> RunData(run), schemaId |-> "schema1", schemaVersion |-> "1.0",
     extractionId |-> run, confidence |-> confidence]
Confidences == {70, 90}
Validations ==
    {[valid |-> TRUE, warnings |-> 0, confidence |-> 100],
     [valid |-> TRUE, warnings |-> 1, confidence |-> 100],
     [valid |-> FALSE, warnings |-> 0, confidence |-> 50]}
NoStage == [status |-> "none"]

\* the options of process, and of approve over them
ProcessOptions ==
    [source |-> "deed.pdf", category |-> "scheme-rules", tags |-> {},
     effectiveFrom |-> NoDate, approvedBy |-> Undefined]
ApproveOptions == [ProcessOptions EXCEPT !.approvedBy = "legal-team"]

\* _requiresApproval(results)
RequiresApproval(results) ==
    IF ~requireHumanApproval THEN FALSE
    ELSE IF results.extraction.confidence < confidenceThreshold THEN TRUE
    ELSE IF results.validation.status # "none"
            /\ (results.validation.warnings > 0
                \/ results.validation.confidence < validationThreshold)
    THEN TRUE
    ELSE FALSE

\* _runRegistration: this.register.add(extractionResult, {...}); the add is
\* made on the Map at once, and its answer is what the caller awaits
RegistrationOptions(extraction, options) ==
    [effectiveFrom |-> options.effectiveFrom, effectiveTo |-> NoDate,
     status |-> Undefined, source |-> options.source, tags |-> options.tags,
     category |-> options.category,
     metadata |-> [k \in {"extractionId", "confidence"} |-> extraction[k]]]
Registered(extraction, options) ==
    AddTo(ThisRegister, Uuids[Len(auditLog) + 1], nextOid, extraction,
          RegistrationOptions(extraction, options), now)
Registration ==
    [status |-> "created", id |-> Uuids[Len(auditLog) + 1], version |-> 1]

\* _recordHistory(results)
RecordHistory(history, run, status) ==
    LET pushed == Append(history, [pipelineRunId |-> run, status |-> status])
    IN IF Len(pushed) > HistoryLimit
       THEN SubSeq(pushed, Len(pushed) - HistoryLimit + 1, Len(pushed))
       ELSE pushed

\* the results object of a run
Results(run, status, extraction, validation, approval, registration, error) ==
    [pipelineRunId |-> run, status |-> status, extraction |-> extraction,
     validation |-> validation, approval |-> approval,
     registration |-> registration, error |-> error]

\* process(document, {schema, ...options}): the run gets a new id.  The
\* extractor, the validator and the register answer at once.  The handler
\* onApprovalRequired is null ("none"), throws ("throws") or answers later
\* ("waits"); the other handlers are null.  With a handler that answers
\* later, process is suspended after pendingApprovals.set, before it writes
\* the status.
Process(c, run, confidence, validated, schema, handler) ==
    LET extraction == Extraction(run, confidence)
        validation == IF autoValidate
                      THEN [status |-> "completed", valid |-> validated.valid,
                            warnings |-> validated.warnings,
                            confidence |-> validated.confidence]
                      ELSE NoStage
        extracted == Results(run, "processing", extraction, validation,
                             NoStage, NoStage, "")
        outcome ==
            IF ~schema THEN "error"
            ELSE IF autoValidate /\ ~validated.valid
                    /\ validationThreshold = 100
            THEN "validation_failed"
            ELSE IF RequiresApproval(extracted) THEN "awaiting_approval"
            ELSE "completed"
        registers == outcome = "completed" /\ autoRegister
        done == Registered(extraction, ProcessOptions)
        status == IF outcome = "awaiting_approval" /\ handler = "throws"
                  THEN "error" ELSE outcome
        suspended == outcome = "awaiting_approval" /\ handler = "waits"
        results ==
            CASE suspended ->
                   [extracted EXCEPT !.approval = [status |-> "pending"]]
              [] status = "error" /\ outcome = "awaiting_approval" ->
                   [extracted EXCEPT !.status = "error",
                                     !.approval = [status |-> "pending"],
                                     !.error = "handler failed"]
              [] outcome = "error" ->
                   Results(run, "error", NoStage, NoStage, NoStage, NoStage,
                           "No schema defined for extraction")
              [] outcome = "validation_failed" ->
                   [extracted EXCEPT !.status = "validation_failed",
                                     !.error = "Validation failed"]
              [] outcome = "awaiting_approval" ->
                   [extracted EXCEPT !.status = "awaiting_approval",
                                     !.approval = [status |-> "pending"]]
              [] OTHER ->
                   [extracted EXCEPT !.status = "completed",
                       !.registration = IF registers THEN Registration
                                        ELSE NoStage]
    IN /\ calls[c].pc = "idle"
       /\ run \notin DOMAIN runs
       /\ Len(auditLog) + Pending < MaxAudit
       /\ storage' = IF registers THEN done.storage ELSE storage
       /\ indexes' = IF registers THEN done.indexes ELSE indexes
       /\ auditLog' = IF registers THEN done.auditLog ELSE auditLog
       /\ nextOid' = IF registers THEN nextOid + 1 ELSE nextOid
       /\ runs' = runs @@ (run :> results)
       /\ pendingApprovals' = IF outcome = "awaiting_approval"
                              THEN pendingApprovals \cup {run}
                              ELSE pendingApprovals
       /\ IF suspended
          THEN /\ calls' = [calls EXCEPT ![c] =
                              [pc |-> "process", existing |-> NoObject,
                               run |-> run]]
               /\ UNCHANGED <<processingHistory, result>>
          ELSE /\ processingHistory' =
                     RecordHistory(processingHistory, run, status)
               /\ result' = Completed(c, "process", run, NoVersion, NoDate,
                                      <<confidence, validated, schema>>, 0,
                                      Returned(results))
               /\ UNCHANGED calls
       /\ UNCHANGED <<now, fresh, batch>>

\* process after the await of onApprovalRequired: the status is written to
\* the results object (the one pendingApprovals holds) and the run recorded
EndProcess(c) ==
    LET run == calls[c].run
        results == [runs[run] EXCEPT !.status = "awaiting_approval"]
    IN /\ calls[c].pc = "process"
       /\ runs' = [runs EXCEPT ![run] = results]
       /\ processingHistory' = RecordHistory(processingHistory, run,
                                             "awaiting_approval")
       /\ calls' = [calls EXCEPT ![c] = Idle]
       /\ result' = Completed(c, "process", run, NoVersion, NoDate, NoArgs, 0,
                              Returned(results))
       /\ UNCHANGED <<storage, indexes, auditLog, now, nextOid, fresh, batch,
                      pendingApprovals>>

NoPendingApproval == "No pending approval found"

\* approve(pipelineRunId, options) up to its await: the pending entry is
\* looked up, the approval stage is written, and _runRegistration has called
\* register.add; the caller is suspended on the answer
BeginApprove(c, run) ==
    LET done == Registered(runs[run].extraction, ApproveOptions)
    IN /\ calls[c].pc = "idle"
       /\ Len(auditLog) + Pending < MaxAudit
       /\ IF run \notin pendingApprovals
          THEN /\ result' = Completed(c, "approve", run, NoVersion, NoDate,
                                      NoArgs, 0, Thrown(NoPendingApproval))
               /\ UNCHANGED <<storage, indexes, auditLog, nextOid, runs, calls>>
          ELSE /\ runs' = [runs EXCEPT ![run].approval =
                              [status |-> "approved"]]
               /\ IF autoRegister
                  THEN /\ storage' = done.storage
                       /\ indexes' = done.indexes
                       /\ auditLog' = done.auditLog
                       /\ nextOid' = nextOid + 1
                  ELSE UNCHANGED <<storage, indexes, auditLog, nextOid>>
               /\ calls' = [calls EXCEPT ![c] =
                              [pc |-> "approve", existing |-> NoObject,
                               run |-> run,
                               registration |-> IF autoRegister
                                                THEN Registration
                                                ELSE NoStage]]
               /\ UNCHANGED result
       /\ UNCHANGED <<now, fresh, pendingApprovals, processingHistory, batch>>

\* approve after its await: the registration stage and the status are
\* written, the pending entry is deleted and the run is recorded
EndApprove(c) ==
    LET run == calls[c].run
        results == [runs[run] EXCEPT !.registration = calls[c].registration,
                                     !.status = "completed"]
    IN /\ calls[c].pc = "approve"
       /\ runs' = [runs EXCEPT ![run] = results]
       /\ pendingApprovals' = pendingApprovals \ {run}
       /\ processingHistory' = RecordHistory(processingHistory, run,
                                             "completed")
       /\ calls' = [calls EXCEPT ![c] = Idle]
       /\ result' = Completed(c, "approve", run, NoVersion, NoDate, NoArgs, 0,
                              Returned(results))
       /\ UNCHANGED <<storage, indexes, auditLog, now, nextOid, fresh, batch>>

\* reject(pipelineRunId, options): it has no await
Reject(c, run) ==
    /\ calls[c].pc = "idle"
    /\ IF run \notin pendingApprovals
       THEN /\ result' = Completed(c, "reject", run, NoVersion, NoDate,
                                   NoArgs, 0, Thrown(NoPendingApproval))
            /\ UNCHANGED pipeline
       ELSE LET results == [runs[run] EXCEPT
                               !.approval = [status |-> "rejected"],
                               !.status = "rejected"]
            IN /\ runs' = [runs EXCEPT ![run] = results]
               /\ pendingApprovals' = pendingApprovals \ {run}
               /\ processingHistory' = RecordHistory(processingHistory, run,
                                                     "rejected")
               /\ result' = Completed(c, "reject", run, NoVersion, NoDate,
                                      NoArgs, 0, Returned(results))
    /\ UNCHANGED <<storage, indexes, auditLog, now, nextOid, calls, fresh, batch>>

Handlers == {"none", "throws", "waits"}

NextPipeline ==
    \/ \E run \in RunIds, confidence \in Confidences,
          validated \in Validations, schema \in BOOLEAN, handler \in Handlers :
          Process(Caller, run, confidence, validated, schema, handler)
    \/ EndProcess(Caller)
    \/ \E c \in Callers, run \in RunIds : BeginApprove(c, run)
    \/ \E c \in Callers : EndApprove(c)
    \/ \E c \in Callers, run \in RunIds : Reject(c, run)

SpecPipeline == Init /\ [][NextPipeline]_vars

(* ------------------- extractBatch / processBatch: actions -------------- *)
\* the loop body up to its await: the operations of the chunk at i are
\* started by batch.map; past the last chunk the helper returns
AtChunk(b, i) ==
    IF i < Len(b.documents)
    THEN [b EXCEPT !.pc = "chunk", !.i = i,
                   !.inFlight = Chunk(b.documents, i, b.concurrency),
                   !.settled = <<>>]
    ELSE [b EXCEPT !.pc = "done", !.i = i, !.inFlight = {}, !.settled = <<>>]

\* extractBatch(documents, options) / processBatch(documents, options)
BeginBatch(helper, documents, option) ==
    /\ batch.pc = "idle"
    /\ batch' = AtChunk([NoBatch EXCEPT !.helper = helper,
                                        !.documents = documents,
                                        !.option = option,
                                        !.concurrency = ConcurrencyOf(option)],
                        0)
    /\ UNCHANGED <<storage, auditLog, indexes, now, nextOid, calls, result,
                   fresh, pipeline>>

\* the operation at position k settles; its .then or .catch gives the result
Settle(k) ==
    /\ batch.pc = "chunk"
    /\ k \in batch.inFlight
    /\ batch' = [batch EXCEPT !.inFlight = @ \ {k},
                              !.settled = @ @@ (k :> BatchResult(batch.documents, k))]
    /\ UNCHANGED <<storage, auditLog, indexes, now, nextOid, calls, result,
                   fresh, pipeline>>

\* Promise.all resolves: the chunk's results are pushed, i += concurrency
ResumeBatch ==
    /\ batch.pc = "chunk"
    /\ batch.inFlight = {}
    /\ batch' = AtChunk([batch EXCEPT !.results = @ \o
                            ChunkResults(batch.settled, batch.i,
                                         Cardinality(DOMAIN batch.settled))],
                        batch.i + batch.concurrency)
    /\ UNCHANGED <<storage, auditLog, indexes, now, nextOid, calls, result,
                   fresh, pipeline>>

Helpers == {"extractBatch", "processBatch"}
RECURSIVE SeqsUpTo(_, _)
SeqsUpTo(S, n) ==
    IF n = 0 THEN {<<>>}
    ELSE LET shorter == SeqsUpTo(S, n - 1)
         IN shorter \cup {Append(q, x) : q \in shorter, x \in S}
ConcurrencyOptions == {0, 1, 2}

NextBatch ==
    \/ \E helper \in Helpers, documents \in SeqsUpTo(Outcomes, MaxDocs),
          option \in ConcurrencyOptions :
          BeginBatch(helper, documents, option)
    \/ \E k \in 0..(MaxDocs - 1) : Settle(k)
    \/ ResumeBatch

SpecBatch == Init /\ [][NextBatch]_vars

(* ======================= properties of the register ==================== *)
Last(s) == s[Len(s)]
Versions(history) == {history[i].version : i \in 1..Len(history)}

\* this step is a mutation of entry id that succeeded: it appended an audit
\* entry with this action
Logged(action, id) ==
    /\ Len(auditLog') = Len(auditLog) + 1
    /\ Last(auditLog').action = action
    /\ Last(auditLog').documentId = id

\* the last call of the single caller
last == result[Caller]

\* C1: after add and any number of updates made one after another, every
\* stored entry has history.length = version - 1 with the history holding
\* exactly the versions 1..version-1, and every update step stores and returns
\* the version it found plus one.
C1_GaplessVersions ==
    \A id \in DOMAIN storage :
        /\ storage[id].version >= 1
        /\ Len(storage[id].history) = storage[id].version - 1
        /\ Versions(storage[id].history) = 1..(storage[id].version - 1)

C1_UpdateIncrements ==
    \A id \in Ids :
        Logged("UPDATE", id) =>
            /\ storage'[id].version = storage[id].version + 1
            /\ result'[Caller].value.version = storage'[id].version
            /\ result'[Caller].value.previousVersion = storage[id].version

\* C1: in every state the versions of an entry are 1..N with no gap and the
\* history holds 1..N-1; every update step adds exactly one to the version.
C1_VersionsStrictlyIncrease == [](C1_GaplessVersions) /\ [][C1_UpdateIncrements]_vars

C1_Witness ==
    /\ last.op = "update" /\ last.outcome = "ok"
    /\ storage[last.id].version = MaxVersion
    /\ Len(storage[last.id].history) = MaxVersion - 1

\* C2: the history of an entry is append-only: across every step that is not
\* an add, the history before the step is a prefix of the history after it.
C2_HistoryAppendOnly ==
    [][\A id \in DOMAIN storage :
          ~Logged("ADD", id) => IsPrefix(storage[id].history, storage'[id].history)]_vars

\* C5: update and archive on an id that is not stored throw "Document not
\* found", and do so exactly then; the failing call leaves the stored entries,
\* the indexes and the audit log as they were.
C5_FailsOnUnknown ==
    last.op \in {"update", "archive"} =>
        /\ last.outcome \in {"ok", "error"}
        /\ last.outcome = "error" <=> ~Stored(last.id)
        /\ last.outcome = "error" => last.error = "Document not found"

C5_FailureChangesNothing ==
    /\ (result'[Caller].op \in {"update", "archive"}
            /\ result'[Caller].outcome = "error")
          => UNCHANGED <<storage, indexes, auditLog>>
    /\ (result'[Caller] # result[Caller]
            /\ result'[Caller].op \in {"update", "archive"}
            /\ ~Stored(result'[Caller].id))
          => /\ result'[Caller].outcome = "error"
             /\ result'[Caller].error = "Document not found"
             /\ UNCHANGED <<storage, indexes, auditLog>>

\* C5: update and archive of an id that is not stored throw and change
\* neither the stored entries, nor the indexes, nor the audit log.
C5_UnknownIdRejected == [](C5_FailsOnUnknown) /\ [][C5_FailureChangesNothing]_vars

C5_Witness ==
    /\ last.op \in {"update", "archive"} /\ last.outcome = "error"
    /\ ~Stored(last.id)
    /\ Stored("a") /\ storage["a"].version > 1

\* C6 as stated: get on an id that is not stored fails with the error that
\* update and archive give.
C6_GetUnknownThrows ==
    (last.op = "get" /\ ~Stored(last.id)) =>
        (last.outcome = "error" /\ last.error = "Document not found")

\* C6 as amended: get on an id that is not stored returns null and throws
\* nothing, whatever options it is given.
C6_GetUnknownReturnsNull ==
    (last.op = "get" /\ ~Stored(last.id)) => last.outcome = "null"

C6_Witness ==
    /\ last.op = "get" /\ ~Stored(last.id) /\ last.outcome = "null"
    /\ Stored("a")

\* C7: with the head at version N, get(id, {version: v}) returns the history
\* record of version v for v in 1..N-1, the current entry for v = N, and throws
\* "Version not found" for every other requested v, 0 included.
C7_GetByVersion ==
    (last.op = "get" /\ Stored(last.id) /\ last.version # NoVersion
        /\ last.asOf = NoDate) =>
        LET entry == storage[last.id]
            v == last.version
        IN /\ v \in 1..(entry.version - 1) =>
                /\ last.outcome = "ok"
                /\ last.value.isHistoric
                /\ \E i \in 1..Len(entry.history) :
                      /\ entry.history[i].version = v
                      /\ last.value = HistoricView(entry, entry.history[i])
           /\ v = entry.version => (last.outcome = "ok" /\ last.value = entry)
           /\ v \notin 1..entry.version =>
                (last.outcome = "error" /\ last.error = "Version not found")

\* C9: across an update, every metadata key of the previous head that the call
\* supplies no value for keeps its value in the new head.
Supplied(k, args) ==
    \/ k \in DOMAIN args[2].metadata
    \/ k \in {"schemaId", "schemaVersion", "extractionId", "confidence"}
          /\ args[1][k] # Undefined

C9_MetadataMerged ==
    [][\A id \in Ids :
          Logged("UPDATE", id) =>
              \A k \in MetaKeys :
                  ~Supplied(k, result'[Caller].args) =>
                      storage'[id].metadata[k] = storage[id].metadata[k]]_vars

\* C10: archive sets status to archived and leaves version, data, metadata,
\* effectiveFrom, effectiveTo and history as they were; get(id) then returns
\* the archived entry, and get by version and get as of any time answer as
\* they did before the archive.
Answer(r) ==
    [outcome |-> r.outcome, error |-> r.error,
     version |-> IF r.outcome = "ok" THEN r.value.version ELSE 0,
     data |-> IF r.outcome = "ok" THEN r.value.data ELSE 0,
     metadata |-> IF r.outcome = "ok" THEN r.value.metadata ELSE NoMeta,
     effectiveFrom |-> IF r.outcome = "ok" THEN r.value.effectiveFrom ELSE NoDate,
     effectiveTo |-> IF r.outcome = "ok" THEN r.value.effectiveTo ELSE NoDate]

C10_ArchiveStep ==
    \A id \in Ids :
        Logged("ARCHIVE", id) =>
            /\ storage'[id].status = "archived"
            /\ storage'[id].version = storage[id].version
            /\ storage'[id].data = storage[id].data
            /\ storage'[id].metadata = storage[id].metadata
            /\ storage'[id].effectiveFrom = storage[id].effectiveFrom
            /\ storage'[id].effectiveTo = storage[id].effectiveTo
            /\ storage'[id].history = storage[id].history
            /\ GetOutcome(storage'[id], NoVersion, NoDate) = Returned(storage'[id])
            /\ \A v \in 0..(MaxVersion + 1) :
                  Answer(GetOutcome(storage'[id], v, NoDate))
                    = Answer(GetOutcome(storage[id], v, NoDate))
            /\ \A t \in Times :
                  Answer(GetOutcome(storage'[id], NoVersion, t))
                    = Answer(GetOutcome(storage[id], NoVersion, t))

\* C10: every archive step changes only the status (and archivedAt) of the
\* entry, and every get answers after it as before it.
C10_ArchiveKeepsEntry == [][C10_ArchiveStep]_vars

C10_Witness ==
    /\ last.op = "archive" /\ last.outcome = "ok"
    /\ storage[last.id].status = "archived"
    /\ storage[last.id].version = 2
    /\ storage[last.id].effectiveTo = NoDate

\* C3: get(id, {asOf: t}) returns the head or a history record whose interval
\* [effectiveFrom, effectiveTo) contains t (a null effectiveTo being open-ended)
\* and returns null exactly when no version's interval contains t; an entry
\* added with amount 100 from time 1 and updated, at time 2, to amount 150
\* from time 2 answers 100 as of 1 and 150 as of 2.
InInterval(from, to, t) == from <= t /\ (to = NoDate \/ t < to)

UpdateAppends(id, closedAt) ==
    LET old == storage[id]
        new == storage'[id]
    IN /\ Len(new.history) = Len(old.history) + 1
       /\ IsPrefix(old.history, new.history)
       /\ Last(new.history).version = old.version
       /\ Last(new.history).data = old.data
       /\ Last(new.history).metadata = old.metadata
       /\ Last(new.history).effectiveFrom = old.effectiveFrom
       /\ Last(new.history).effectiveTo = closedAt
       /\ new.data = result'[Caller].args[1].data
       /\ new.version = old.version + 1

C8_HistoryClosedAtOverride ==
    [][\A id \in Ids :
          Logged("UPDATE", id) =>
              UpdateAppends(id,
                  IF result'[Caller].args[2].effectiveTo # NoDate
                  THEN result'[Caller].args[2].effectiveTo
                  ELSE now)]_vars

\* C8 as amended: the effectiveTo of the appended record is always the time
\* of the update; an effectiveTo supplied to update goes to the new head.
C8_HistoryClosedAtNow ==
    [][\A id \in Ids :
          Logged("UPDATE", id) =>
              /\ UpdateAppends(id, now)
              /\ storage'[id].effectiveTo = result'[Caller].args[2].effectiveTo]_vars

C8_Witness ==
    /\ last.op = "update" /\ last.outcome = "ok"
    /\ last.args[2].effectiveTo # NoDate
    /\ last.args[2].effectiveTo # now
    /\ storage[last.id].effectiveTo = last.args[2].effectiveTo
    /\ Last(storage[last.id].history).effectiveTo = now
    /\ Len(storage[last.id].history) = 2

\* C4: when two updates of one id overlap so that both read the same entry
\* object at version N, both return version N + 1 and the audit log holds two
\* UPDATE entries with previousVersion N; once the second has written, the
\* entry has version N + 1 and a history of length N, its head is the data of
\* the second, and the data written by the first is neither the head nor in the
\* history.
DataOf(entry) ==
    {entry.data} \cup {entry.history[i].data : i \in 1..Len(entry.history)}

IsUpdateEntry(i, id, n) ==
    /\ auditLog[i].action = "UPDATE"
    /\ auditLog[i].documentId = id
    /\ auditLog[i].details.previousVersion = n
    /\ auditLog[i].details.newVersion = n + 1

\* the last calls of p and q are successful updates that read the same object
BothReadSame(p, q) ==
    /\ p # q
    /\ result[p].op = "update" /\ result[p].outcome = "ok"
    /\ result[q].op = "update" /\ result[q].outcome = "ok"
    /\ result[p].id = result[q].id
    /\ result[p].read = result[q].read

LostUpdate(p, q) ==
    LET id == result[p].id
        n == result[p].value.previousVersion
    IN /\ result[q].value.previousVersion = n
       /\ result[p].value.version = n + 1
       /\ result[q].value.version = n + 1
       /\ \E i, j \in 1..Len(auditLog) :
             /\ i < j
             /\ IsUpdateEntry(i, id, n)
             /\ IsUpdateEntry(j, id, n)
             /\ (j = Len(auditLog) /\ result[q].args[1].data = storage[id].data) =>
                   /\ storage[id].version = n + 1
                   /\ Len(storage[id].history) = n
                   /\ result[p].args[1].data \notin DataOf(storage[id])

\* C4: two updates of one id that read the same entry object lose one of the
\* two writes, while both return success with the same version.
C4_LostUpdate ==
    \A p, q \in Callers : BothReadSame(p, q) => LostUpdate(p, q)

C4_Witness ==
    \E p, q \in Callers :
        /\ BothReadSame(p, q)
        /\ LostUpdate(p, q)
        /\ IsUpdateEntry(Len(auditLog), result[p].id, result[p].value.previousVersion)
        /\ storage[result[p].id].data = result[q].args[1].data
        /\ storage[result[p].id].version = result[p].value.version
        /\ result[p].args[1].data \notin DataOf(storage[result[p].id])
        /\ result[p].value.previousVersion = 1

\* C11: an add whose options.id names an entry that is already stored leaves
\* that entry's version, data, status and history as they were: it does not
\* put the entry back to version 1 with an empty history.
C11_AddKeepsStoredEntry ==
    [][\A id \in DOMAIN storage :
          Logged("ADD", id) =>
              /\ storage'[id].version = storage[id].version
              /\ storage'[id].data = storage[id].data
              /\ storage'[id].status = storage[id].status
              /\ storage'[id].history = storage[id].history]_vars

\* the audit action of a mutating operation
AuditAction(op) ==
    CASE op = "add" -> "ADD" [] op = "update" -> "UPDATE" [] op = "archive" -> "ARCHIVE"

\* what the step's call (its result is result'[Caller]) did to the audit log
AuditStep ==
    LET r == result'[Caller]
    IN IF r.op \in {"add", "update", "archive"} /\ r.outcome = "ok"
       THEN /\ Len(auditLog') = Len(auditLog) + 1
            /\ Last(auditLog').action = AuditAction(r.op)
            /\ Last(auditLog').documentId = r.id
            /\ Last(auditLog').timestamp = now
            /\ r.op = "update" =>
                  /\ Last(auditLog').details.previousVersion = storage[r.id].version
                  /\ Last(auditLog').details.newVersion = storage[r.id].version + 1
                  /\ Last(auditLog').details.newVersion = storage'[r.id].version
       ELSE auditLog' = auditLog

\* C12: every add, update or archive that succeeds appends exactly one entry
\* at the end of the audit log, with its action and document id (an UPDATE
\* entry with previousVersion and newVersion = previousVersion + 1); a call
\* that fails and a read append nothing; the entries already in the log are
\* never changed, removed or reordered.
C12_AuditLogAppendOnly ==
    [][/\ IsPrefix(auditLog, auditLog')
       /\ IF now' = now THEN AuditStep ELSE auditLog' = auditLog]_vars

C12_Witness ==
    /\ Len(auditLog) = 3
    /\ auditLog[1].action = "ADD"
    /\ auditLog[2].action = "UPDATE"
    /\ auditLog[2].details.previousVersion = 1
    /\ auditLog[2].details.newVersion = 2
    /\ auditLog[3].action = "ARCHIVE"
    /\ \A i \in 1..3 : auditLog[i].documentId = "a"
    /\ last.op = "archive" /\ last.outcome = "ok"

\* the ids whose current head carries category c / tag t
WithCategory(c) == {id \in DOMAIN storage : storage[id].metadata.category = c}
WithTag(t) == {id \in DOMAIN storage : t \in storage[id].metadata.tags}

\* C13: the category index maps each category to exactly the ids whose
\* current head has that category, and the tag index each tag to exactly the
\* ids whose current head has that tag: no id stays in a set it has left.
C13_IndexesExact ==
    /\ \A c \in DOMAIN indexes.category : indexes.category[c] = WithCategory(c)
    /\ \A t \in DOMAIN indexes.tags : indexes.tags[t] = WithTag(t)
    /\ \A id \in DOMAIN storage :
          /\ ~Falsy(storage[id].metadata.category) =>
                storage[id].metadata.category \in DOMAIN indexes.category
          /\ storage[id].metadata.tags \subseteq DOMAIN indexes.tags

\* C13: an update keeps the indexes exact: when every index set holds exactly
\* the ids whose head carries its category or tag before an update, the same
\* is true after it.
C13_UpdateKeepsIndexesExact ==
    [][\A id \in Ids :
          (Logged("UPDATE", id) /\ C13_IndexesExact) => C13_IndexesExact']_vars

\* the last call imported the caller's export into the second register
RoundTripDone == last.op = "import" /\ last.args[3] = "fresh"

\* the second register holds the head entry of id as this register does
SameHead(id) ==
    /\ fresh.storage[id].data = storage[id].data
    /\ fresh.storage[id].metadata = storage[id].metadata
    /\ fresh.storage[id].effectiveFrom = storage[id].effectiveFrom
    /\ fresh.storage[id].effectiveTo = storage[id].effectiveTo

\* C14: round trip: once the payload of export() has been imported into a
\* new, empty register, that register holds exactly the ids of this one and,
\* for each id, the data, metadata, effectiveFrom and effectiveTo of the head
\* entry that was exported.
C14_RoundTrip ==
    RoundTripDone =>
        /\ DOMAIN fresh.storage = DOMAIN storage
        /\ \A id \in DOMAIN storage : SameHead(id)

\* the positions of the items of a batch whose id is stored
ExistingItems(items) == {i \in 1..Len(items) : items[i].id \in DOMAIN storage}

\* what import on this register answers for a batch, given the ids stored
\* before the call
ImportHandlesExisting ==
    LET items == result'[Caller].args[1]
        skipExisting == result'[Caller].args[2]
        r == result'[Caller].value
        existing == ExistingItems(items)
    IN /\ r.imported + r.skipped + Len(r.errors) = Len(items)
       /\ \A i \in 1..Len(items) : items[i].id \in DOMAIN storage'
       /\ skipExisting =>
             /\ r.skipped = Cardinality(existing)
             /\ \A i \in existing : storage'[items[i].id] = storage[items[i].id]
       /\ ~skipExisting =>
             /\ Len(r.errors) = Cardinality(existing)
             /\ r.imported = Len(items) - Cardinality(existing)

\* C15: import of a batch holding an id that is already stored: with
\* skipExisting the item is counted in skipped and the stored entry is left as
\* it was; without it the item is reported in errors and is not counted as
\* imported; either way the other items are imported and imported + skipped +
\* errors.length is the number of items.
C15_ImportExisting ==
    [][(/\ now' = now
        /\ result'[Caller].op = "import"
        /\ result'[Caller].args[3] = "this") => ImportHandlesExisting]_vars

\* the field predicates of a query: <<i, op>> for the i-th field of the query
\* and one operator of it ("lit" for a literal)
Predicates(query) ==
    {<<i, "lit">> : i \in {j \in 1..Len(query) : Kind(query[j][2]) # "ops"}}
    \cup UNION {{<<i, op>> : op \in DOMAIN query[i][2].ops \ {"flags"}} :
                   i \in {j \in 1..Len(query) : Kind(query[j][2]) = "ops"}}

\* the predicate holds of the data object d
PredicateHolds(d, query, p) ==
    LET v == GetNestedValue(d, query[p[1]][1])
        arg == query[p[1]][2]
    IN /\ Kind(v) # "undef"
       /\ CASE p[2] = "lit" -> StrictEq(v, arg)
            [] p[2] = "eq" -> StrictEq(v, arg.ops.eq)
            [] p[2] = "contains" -> Includes(String(v), arg.ops.contains)
            [] p[2] = "gt" -> Greater(v, arg.ops.gt)
            [] p[2] = "lt" -> Less(v, arg.ops.lt)
            [] p[2] = "regex" -> RegexTest(arg.ops.regex, Flags(arg.ops), String(v))

\* the fixed weights, in tenths
Weight(op) ==
    CASE op \in {"lit", "eq"} -> 10 [] op = "regex" -> 9 [] op = "contains" -> 8
      [] op \in {"gt", "lt"} -> 7

RECURSIVE SumOfWeights(_)
SumOfWeights(ps) ==
    IF ps = {} THEN 0
    ELSE LET p == CHOOSE x \in ps : TRUE
         IN Weight(p[2]) + SumOfWeights(ps \ {p})

Holding(d, query) == {p \in Predicates(query) : PredicateHolds(d, query, p)}

\* what search answered, against the stored entries
SearchAnswer ==
    LET query == last.args[1]
        results == last.value.results
    IN /\ {results[i].id : i \in 1..Len(results)}
             = {id \in DOMAIN storage : Holding(storage[id].data, query) # {}}
       /\ last.value.total = Len(results)
       /\ \A i, j \in 1..Len(results) : i # j => results[i].id # results[j].id
       /\ \A i \in 1..Len(results) :
             LET entry == storage[results[i].id]
             IN /\ results[i].matchScore = SumOfWeights(Holding(entry.data, query))
                /\ Len(results[i].matchedFields)
                      = Cardinality(Holding(entry.data, query))
                /\ \A k \in DOMAIN entry : results[i][k] = entry[k]
       /\ \A i, j \in 1..Len(results) :
             i < j => results[i].matchScore >= results[j].matchScore

C17_CompareSelf ==
    (last.op = "compare" /\ last.args[1] = last.args[2]) =>
        /\ last.value.identical
        /\ last.value.differences = <<>>
        /\ last.value.statistics.totalDifferences = 0
        /\ last.value.statistics.added = 0
        /\ last.value.statistics.removed = 0
        /\ last.value.statistics.modified = 0

C17_Witness ==
    /\ last.op = "compare" /\ last.args[1] = last.args[2]
    /\ storage[last.args[1]].data = ListedData
    /\ last.value.statistics.totalFields = 5
    /\ last.value.identical

\* the fields of a list of differences, and the type reported for a field
DiffFields(differences) == {differences[i].field : i \in 1..Len(differences)}
DiffTypes(differences, field) ==
    {differences[i].type : i \in {j \in 1..Len(differences) :
                                     differences[j].field = field}}
Mirrored(type) ==
    CASE type = "added" -> "removed" [] type = "removed" -> "added"
      [] OTHER -> type

\* C18: compare(A, B) and compare(B, A) report differences for the same
\* fields and as many of them; a field added one way is removed the other
\* way, and every other field has the same classification both ways.
C18_CompareSymmetric ==
    last.op = "compareBoth" =>
        LET forward == last.value.forward.differences
            backward == last.value.backward.differences
        IN /\ Len(forward) = Len(backward)
           /\ DiffFields(forward) = DiffFields(backward)
           /\ Cardinality(DiffFields(forward)) = Len(forward)
           /\ \A field \in DiffFields(forward) :
                 DiffTypes(backward, field)
                    = {Mirrored(type) : type \in DiffTypes(forward, field)}

C18_Witness ==
    /\ last.op = "compareBoth"
    /\ LET forward == last.value.forward.differences
           backward == last.value.backward.differences
       IN /\ DiffTypes(forward, "amount") = {"added"}
          /\ DiffTypes(backward, "amount") = {"removed"}
          /\ DiffTypes(forward, "data") = {"removed"}
          /\ DiffTypes(forward, "title") = {"text_change"}
          /\ DiffTypes(backward, "title") = {"text_change"}
          /\ Len(forward) = 5

\* the periods of validity [effectiveFrom, effectiveTo) of two entries
\* overlap; no effectiveTo is no end
IntervalsOverlap(a, b) ==
    /\ b.effectiveTo = NoDate \/ a.effectiveFrom < b.effectiveTo
    /\ a.effectiveTo = NoDate \/ b.effectiveFrom < a.effectiveTo

\* two of the documents hold different values for the field over periods
\* that overlap
Disagree(ids, field) ==
    \E i, j \in 1..Len(ids) :
        /\ i # j
        /\ field \in DOMAIN DataFields(storage[ids[i]].data)
        /\ field \in DOMAIN DataFields(storage[ids[j]].data)
        /\ ~AreEqual(DataFields(storage[ids[i]].data)[field],
                     DataFields(storage[ids[j]].data)[field])
        /\ IntervalsOverlap(storage[ids[i]], storage[ids[j]])

\* C19: findConflicts flags a field only if two of the documents hold
\* different values for it over periods of validity that overlap; documents
\* whose periods follow one another without overlap give no conflict, and
\* hasConflicts is false when no field is flagged.
C19_ConflictsNeedOverlap ==
    last.op = "findConflicts" =>
        /\ \A i \in 1..Len(last.value.conflicts) :
              Disagree(last.args[1], last.value.conflicts[i].field)
        /\ last.value.hasConflicts = (Len(last.value.conflicts) > 0)

\* C20: with requireHumanApproval and autoRegister on, a run that process
\* returned as awaiting_approval is added to the register at most once in
\* total, whatever the sequence or interleaving of approve and reject calls
\* on its run id.
Registrations(run) ==
    {id \in DOMAIN storage : storage[id].metadata.extractionId = run}
AwaitedApproval(run) ==
    run \in DOMAIN runs /\ runs[run].approval.status # "none"
C20_RegisteredAtMostOnce ==
    \A run \in RunIds :
        AwaitedApproval(run) => Cardinality(Registrations(run)) <= 1

\* C21: a batch helper never has more than `concurrency` (default 3)
\* operations in flight, starts the operations of a chunk only when none of
\* the previous chunk is unsettled, and returns one result per input
\* document, in input order, each with its document's position, a rejected
\* operation giving an error result.
BatchLimit == IF batch.option = 0 THEN 3 ELSE batch.option
BatchCapped == Cardinality(batch.inFlight) <= BatchLimit
BatchStartsAfterSettled ==
    (batch'.inFlight \ batch.inFlight # {}) => batch.inFlight = {}
BatchAnswer ==
    /\ Len(batch.results) = Len(batch.documents)
    /\ \A n \in 1..Len(batch.documents) :
          /\ batch.results[n].index = n - 1
          /\ (batch.results[n].error # "") = (batch.documents[n] = "reject")
C21_BatchInChunks ==
    /\ [](BatchCapped /\ (batch.pc = "done" => BatchAnswer))
    /\ [][BatchStartsAfterSettled]_vars
C21_Witness ==
    /\ batch.pc = "done"
    /\ batch.option = 0
    /\ Len(batch.documents) = 4
    /\ batch.documents[2] = "reject"
    /\ batch.documents[4] = "resolve"

\* C22: when asOf is outside the head's interval and history records contain
\* asOf, get(id, {asOf}) returns the one of them with the highest version, on
\* every call, also after earlier get(id, {asOf}) calls on the entry.
CoveringVersions(entry, asOf) ==
    {entry.history[i].version : i \in
        {j \in 1..Len(entry.history) :
            /\ entry.history[j].effectiveFrom <= asOf
            /\ entry.history[j].effectiveTo > asOf}}
C22_AsOfNewestHistoric ==
    (/\ last.op = "get"
     /\ last.asOf # NoDate
     /\ Stored(last.id)
     /\ ~(storage[last.id].effectiveFrom <= last.asOf
          /\ (storage[last.id].effectiveTo = NoDate
              \/ storage[last.id].effectiveTo > last.asOf))
     /\ CoveringVersions(storage[last.id], last.asOf) # {})
    => /\ last.outcome = "ok"
       /\ \A v \in CoveringVersions(storage[last.id], last.asOf) :
             last.value.version >= v

\* the classification of a field of two records by the kinds of its values
SameValue(a, b) == Kind(a) = Kind(b) /\ a = b
Classified(a, b, field) ==
    IF field \notin DOMAIN a THEN "added"
    ELSE IF field \notin DOMAIN b THEN "removed"
    ELSE IF SameValue(a[field], b[field]) THEN "none"
    ELSE IF Kind(a[field]) = "num" /\ Kind(b[field]) = "num"
    THEN "numeric_change"
    ELSE IF Kind(a[field]) = "str" /\ Kind(b[field]) = "str" THEN "text_change"
    ELSE IF Kind(a[field]) = "arr" /\ Kind(b[field]) = "arr" THEN "array_change"
    ELSE IF Kind(a[field]) = "obj" /\ Kind(b[field]) = "obj" THEN "object_change"
    ELSE "modified"
ComparedFields(a, b) ==
    (DOMAIN a \cup DOMAIN b) \ ignoreFields

\* C23: compare(A, B) reports at most one difference per field of the union
\* of A.data and B.data, none for an ignored field or for equal values, and
\* classifies every other field: added, removed, numeric_change with
\* delta = B - A, text_change, array_change, object_change for two mappings,
\* modified for every other or mixed-type pair.
C23_CompareClassifies ==
    last.op = "compare" =>
        LET a == DataFields(storage[last.args[1]].data)
            b == DataFields(storage[last.args[2]].data)
            differences == last.value.differences
        IN /\ Cardinality(DiffFields(differences)) = Len(differences)
           /\ DiffFields(differences) \subseteq ComparedFields(a, b)
           /\ \A field \in ComparedFields(a, b) :
                 IF Classified(a, b, field) = "none"
                 THEN field \notin DiffFields(differences)
                 ELSE DiffTypes(differences, field) = {Classified(a, b, field)}
           /\ \A i \in 1..Len(differences) :
                 differences[i].type = "numeric_change" =>
                    differences[i].details.delta
                       = b[differences[i].field].num - a[differences[i].field].num

\* C24: in the result of compare, added + removed + modified is the number
\* of differences, and changePercentage is that number divided by the number
\* of fields compared: the fields of the union of A.data and B.data that are
\* not in the ignore set.
C24_CompareStatistics ==
    last.op = "compare" =>
        LET a == DataFields(storage[last.args[1]].data)
            b == DataFields(storage[last.args[2]].data)
            differences == last.value.differences
            statistics == last.value.statistics
        IN /\ statistics.added + statistics.removed + statistics.modified
                 = Len(differences)
           /\ statistics.changePercentage.n * Cardinality(ComparedFields(a, b))
                 = Len(differences) * statistics.changePercentage.d

\* the position of the history record of a version
HistoryIndex(entry, version) ==
    CHOOSE i \in 1..Len(entry.history) : entry.history[i].version = version
DataOfVersion(entry, version) ==
    IF version = entry.version THEN entry.data
    ELSE entry.history[HistoryIndex(entry, version)].data
VersionOf(entry, version) ==
    [id |-> entry.id, version |-> version, effectiveFrom |-> NoDate,
     data |-> DataOfVersion(entry, version)]
RECURSIVE SumOfCounts(_)
SumOfCounts(entries) ==
    IF entries = <<>> THEN 0
    ELSE Head(entries).changeCount + SumOfCounts(Tail(entries))
VersionsComplete(entry) ==
    /\ Len(entry.history) = entry.version - 1
    /\ \A v \in 1..(entry.version - 1) :
          \E i \in 1..Len(entry.history) : entry.history[i].version = v

ReportedPairs(conflict) ==
    {conflict.overlappingPeriods[k].documents :
        k \in 1..Len(conflict.overlappingPeriods)}

\* C26: the overlap test of findConflicts takes the periods as half-open,
\* [f1, t1) and [f2, t2) with no effectiveTo as no end, each document with
\* its own effectiveTo: two documents are reported as overlapping exactly
\* when f1 < t2 and f2 < t1, so periods that only touch do not overlap.
C26_OverlapHalfOpen ==
    last.op = "findConflicts" =>
        \A i \in 1..Len(last.value.conflicts) :
            LET conflict == last.value.conflicts[i]
                ids == last.args[1]
            IN \A m, n \in 1..Len(ids) :
                  (/\ m < n
                   /\ conflict.field \in DOMAIN DataFields(storage[ids[m]].data)
                   /\ conflict.field \in DOMAIN DataFields(storage[ids[n]].data)
                   /\ storage[ids[m]].effectiveFrom # NoDate
                   /\ storage[ids[n]].effectiveFrom # NoDate)
                  => (<<ids[m], ids[n]>> \in ReportedPairs(conflict))
                        = IntervalsOverlap(storage[ids[m]], storage[ids[n]])

\* the duplicate groups of an answer of findOverlaps, each as its set of ids
DuplicateGroupIds(answer) ==
    {{answer.overlaps[i].documents[k].id :
         k \in 1..Len(answer.overlaps[i].documents)} :
       i \in {j \in 1..Len(answer.overlaps) :
                 answer.overlaps[j].type = "duplicate_group"}}
SameGroupValues(idA, idB, fieldGroups) ==
    \A i \in 1..Len(fieldGroups) :
        SameValue(ValueAt(Obj(storage[idA].data), fieldGroups[i]),
                  ValueAt(Obj(storage[idB].data), fieldGroups[i]))

\* C27: findOverlaps with groupByFields reports documents in one
\* duplicate_group exactly when they have the same value for every group-by
\* field; documents that differ in a group-by field are never in the same
\* group, and a document is in at most one reported group.
C27_GroupsBySameValues ==
    last.op = "findOverlaps" =>
        LET ids == last.args[1]
            fieldGroups == last.args[2]
            groups == DuplicateGroupIds(last.value)
        IN /\ \A m, n \in 1..Len(ids) :
                 m < n =>
                    ((\E group \in groups : ids[m] \in group /\ ids[n] \in group)
                       = SameGroupValues(ids[m], ids[n], fieldGroups))
           /\ \A g, h \in groups : g # h => g \cap h = {}
           /\ \A g \in groups : Cardinality(g) > 1

\* C28: the reads get (plain, with version, with asOf), getHistory, list,
\* search and export leave every stored entry, with the order and contents
\* of its history, the indexes and the audit log as they were.
ReadOps == {"get", "getHistory", "list", "search", "export"}
C28_ReadsChangeNothing ==
    [][\A c \in Callers :
          (result'[c] # result[c] /\ result'[c].op \in ReadOps)
          => UNCHANGED <<storage, indexes, auditLog>>]_vars

\* two answers of get are the same: both not found, or the same version
\* with the same data
SameAnswer(before, after) ==
    /\ before.outcome = after.outcome
    /\ before.outcome = "ok" =>
          /\ before.value.version = after.value.version
          /\ before.value.data = after.value.data

\* C29: an update does not rewrite the past: for every time t earlier than
\* the moment of the update and than the effectiveFrom of the new version,
\* get(id, {asOf: t}) answers after the update what it answered immediately
\* before it.
C29_UpdateKeepsPast ==
    [][\A id \in Ids :
          Logged("UPDATE", id) =>
              \A t \in Times :
                  (t < now /\ t < storage'[id].effectiveFrom) =>
                      SameAnswer(GetOutcome(storage[id], NoVersion, t),
                                 GetOutcome(storage'[id], NoVersion, t))]_vars

\* C30: whenever no process, approve or reject call is in progress, a run id
\* is in pendingApprovals if and only if the run's status is
\* awaiting_approval.
Quiescent == \A c \in Callers : calls[c].pc = "idle"
C30_PendingIffAwaiting ==
    Quiescent =>
        /\ pendingApprovals \subseteq DOMAIN runs
        /\ \A run \in DOMAIN runs :
              (run \in pendingApprovals) = (runs[run].status = "awaiting_approval")

====
